---------------------------- MODULE Spec2Model ----------------------------
(***************************************************************************)
(* A model of the stack-language interpreter of src/src/lib.rs: the value  *)
(* model (Type), the tokenizer (Executor::analyze_syntax) and the          *)
(* evaluation engine (Executor::evaluate_program, execute_command,         *)
(* pop_stack).                                                             *)
(*                                                                         *)
(* The recursion of evaluate_program is modelled by an explicit control    *)
(* stack, frames: one frame per pending call of evaluate_program (the      *)
(* tokens it has still to process) and one per command or literal that is  *)
(* waiting for a nested evaluation to return (a list literal, while, for,  *)
(* map, filter).  One step of the model is one token of the token loop,    *)
(* the end of one evaluate_program call, or the part of a command that     *)
(* runs between two nested evaluations.                                    *)
(*                                                                         *)
(* Text is a TLA+ string; Char(s, i) is its i-th character.  A Number is   *)
(* an integer: the programs of the model hold no literal with a fraction,  *)
(* an exponent, "inf", "nan" or "-0", and the modelled commands keep       *)
(* integers integral.                                                      *)
(***************************************************************************)
EXTENDS Integers, Sequences, FiniteSets, TLC

VARIABLES
    program,  \* the text given to run_stack
    stack,    \* Executor.stack
    memory,   \* Executor.memory: a function from names to values
    output,   \* Executor.output
    log,      \* Executor.log: the sequence of the pieces appended to it
    frames,   \* the pending calls (the innermost is the last)
    status    \* "running", "done", "exited" (process::exit) or "panicked"

vars == <<program, stack, memory, output, log, frames, status>>

-----------------------------------------------------------------------------
(* Bounds of the model.                                                    *)

\* No token is processed once the log holds this many pieces.
MaxLog == 70

\* The generated programs push at most this many literals before a command.
MaxArgs == 2

\* The list literals of the indexed-command programs hold up to this many
\* elements, and their indexes range over -MaxIndex .. MaxIndex.
MaxLen == 2

MaxIndex == 3

\* The tokenizer is run on every text of at most this many characters of
\* ScanChars.
MaxText == 4

\* the most values a round-trip program pushes before swap or copy
MaxBelow == 3

-----------------------------------------------------------------------------
(* Text.                                                                   *)

Char(s, i) == SubSeq(s, i, i)

\* U+3000, the full-width space: the module is ASCII, and writes it as the
\* form feed, a character no program of the model uses otherwise.
FullWidthSpace == "\f"

Contains(s, c) == \E i \in 1..Len(s) : Char(s, i) = c

RECURSIVE ReplaceChars(_, _, _)
\* str::replace of every character of the set from by the text to
ReplaceChars(s, from, to) ==
    IF s = "" THEN ""
    ELSE (IF Char(s, 1) \in from THEN to ELSE Char(s, 1))
         \o ReplaceChars(SubSeq(s, 2, Len(s)), from, to)

RECURSIVE Join(_, _)
\* [String]::join
Join(seq, sep) ==
    IF seq = <<>> THEN ""
    ELSE IF Len(seq) = 1 THEN seq[1]
    ELSE seq[1] \o sep \o Join(Tail(seq), sep)

WhiteSpace == {" ", "\t", "\n", "\r", FullWidthSpace}

RECURSIVE SplitFrom(_, _, _, _)
SplitFrom(s, i, buffer, acc) ==
    IF i > Len(s)
    THEN IF buffer # "" THEN Append(acc, buffer) ELSE acc
    ELSE IF Char(s, i) \in WhiteSpace
    THEN SplitFrom(s, i + 1, "", IF buffer # "" THEN Append(acc, buffer) ELSE acc)
    ELSE SplitFrom(s, i + 1, buffer \o Char(s, i), acc)

\* str::split_whitespace: the non-empty pieces between runs of white space
split_whitespace(s) == SplitFrom(s, 1, "", <<>>)

Reverse(seq) == [i \in 1..Len(seq) |-> seq[Len(seq) + 1 - i]]

Front(seq) == SubSeq(seq, 1, Len(seq) - 1)

Last(seq) == seq[Len(seq)]

-----------------------------------------------------------------------------
(* Numbers as text.                                                        *)

Digits == <<"0", "1", "2", "3", "4", "5", "6", "7", "8", "9">>

IsDigit(c) == \E d \in 1..10 : Digits[d] = c

DigitValue(c) == (CHOOSE d \in 1..10 : Digits[d] = c) - 1

RECURSIVE NatToString(_)
NatToString(n) ==
    IF n < 10 THEN Digits[n + 1]
    ELSE NatToString(n \div 10) \o Digits[(n % 10) + 1]

\* f64::to_string of an integral value
NumberToString(n) == IF n < 0 THEN "-" \o NatToString(-n) ELSE NatToString(n)

RECURSIVE DigitsValue(_, _)
DigitsValue(s, acc) ==
    IF s = "" THEN acc
    ELSE DigitsValue(SubSeq(s, 2, Len(s)), 10 * acc + DigitValue(Char(s, 1)))

AllDigits(s) == s # "" /\ \A i \in 1..Len(s) : IsDigit(Char(s, i))

\* str::parse::<f64> succeeds: an optional sign and decimal digits (the
\* other forms f64 accepts do not occur in the model)
ParsesAsNumber(s) ==
    IF s # "" /\ Char(s, 1) \in {"-", "+"}
    THEN AllDigits(SubSeq(s, 2, Len(s)))
    ELSE AllDigits(s)

\* the value str::parse::<f64> gives when it succeeds
ParseNumber(s) ==
    IF Char(s, 1) = "-" THEN 0 - DigitsValue(SubSeq(s, 2, Len(s)), 0)
    ELSE IF Char(s, 1) = "+" THEN DigitsValue(SubSeq(s, 2, Len(s)), 0)
    ELSE DigitsValue(s, 0)

\* `x as usize` of an f64: a negative value saturates to 0
as_usize(n) == IF n < 0 THEN 0 ELSE n

\* `x as u32` of an f64: a negative value saturates to 0 (and a value past
\* u32::MAX to u32::MAX: the numbers of the model stay below 2^31)
as_u32(n) == IF n < 0 THEN 0 ELSE n

-----------------------------------------------------------------------------
(* Characters and their scalar values.                                     *)

\* the characters U+0020 .. U+005F, in their order
AsciiLow == " !\"#$%&'()*+,-./0123456789:;<=>?@ABCDEFGHIJKLMNOPQRSTUVWXYZ[\\]^_"

\* the characters U+0061 .. U+007E, in their order
AsciiHigh == "abcdefghijklmnopqrstuvwxyz{|}~"

\* the character of a scalar value: char::to_string.  The module writes the
\* characters of the two tables, the white space of the tokenizer, and `?`
\* for every other character
chr(u) ==
    CASE u \in 32..95 -> Char(AsciiLow, u - 31)
      [] u \in 97..126 -> Char(AsciiHigh, u - 96)
      [] u = 9 -> "\t"
      [] u = 10 -> "\n"
      [] u = 13 -> "\r"
      [] u = 12288 -> FullWidthSpace
      [] OTHER -> "?"

\* the scalar value of a character of the module: `c as u32`
ord(c) ==
    CASE c = "\t" -> 9
      [] c = "\n" -> 10
      [] c = "\r" -> 13
      [] c = FullWidthSpace -> 12288
      [] Contains(AsciiLow, c) ->
            31 + CHOOSE i \in 1..Len(AsciiLow) : Char(AsciiLow, i) = c
      [] OTHER ->
            96 + CHOOSE i \in 1..Len(AsciiHigh) : Char(AsciiHigh, i) = c

\* char::from_u32: no character for a surrogate or a value past U+10FFFF
\* (<<>> is None, <<c>> is Some(c))
char_from_u32(u) ==
    IF u \in 55296..57343 \/ u > 1114111 THEN <<>> ELSE <<chr(u)>>

-----------------------------------------------------------------------------
(* The value model: enum Type.                                             *)

Number(n) == [t |-> "Number", n |-> n]

String(s) == [t |-> "String", s |-> s]

Bool(b) == [t |-> "Bool", b |-> b]

List(l) == [t |-> "List", l |-> l]

BoolToString(b) == IF b THEN "true" ELSE "false"

RECURSIVE display(_)
\* Type::display
display(v) ==
    CASE v.t = "Number" -> NumberToString(v.n)
      [] v.t = "String" -> "(" \o v.s \o ")"
      [] v.t = "Bool" -> BoolToString(v.b)
      [] v.t = "List" ->
            "[" \o Join([i \in 1..Len(v.l) |-> display(v.l[i])], " ") \o "]"

\* Type::get_string
get_string(v) ==
    CASE v.t = "String" -> v.s
      [] v.t = "Number" -> NumberToString(v.n)
      [] v.t = "Bool" -> BoolToString(v.b)
      [] v.t = "List" -> display(v)

\* Type::get_number
get_number(v) ==
    CASE v.t = "String" -> IF ParsesAsNumber(v.s) THEN ParseNumber(v.s) ELSE 0
      [] v.t = "Number" -> v.n
      [] v.t = "Bool" -> IF v.b THEN 1 ELSE 0
      [] v.t = "List" -> Len(v.l)

\* a coercion to Bool that reads the text of a String
get_bool_parsed(v) ==
    CASE v.t = "String" -> v.s \notin {"", "false", "0"}
      [] v.t = "Number" -> v.n # 0
      [] v.t = "Bool" -> v.b
      [] v.t = "List" -> Len(v.l) # 0

\* Type::get_bool
get_bool(v) ==
    CASE v.t = "String" -> Len(v.s) # 0
      [] v.t = "Number" -> v.n # 0
      [] v.t = "Bool" -> v.b
      [] v.t = "List" -> Len(v.l) # 0

\* Type::get_list
get_list(v) ==
    CASE v.t = "String" -> [i \in 1..Len(v.s) |-> String(Char(v.s, i))]
      [] v.t = "Number" -> <<Number(v.n)>>
      [] v.t = "Bool" -> <<Bool(v.b)>>
      [] v.t = "List" -> v.l

-----------------------------------------------------------------------------
(* The tokenizer: Executor::analyze_syntax.                                *)

\* the four replace calls: every tab, newline, carriage return and
\* full-width space becomes a space
normalize(code) == ReplaceChars(code, {"\n", "\t", "\r", FullWidthSpace}, " ")

ScanInit ==
    [syntax |-> <<>>, buffer |-> "", in_brackets |-> 0, in_parentheses |-> 0,
     in_hash |-> FALSE]

\* a scan that counts the brackets inside parentheses too
scan_char_brackets_anywhere(st, c) ==
    CASE c = "(" ->
            [st EXCEPT !.in_brackets = @ + 1, !.buffer = @ \o "("]
      [] c = ")" ->
            [st EXCEPT !.in_brackets = @ - 1, !.buffer = @ \o ")"]
      [] c = "#" ->
            [st EXCEPT !.in_hash = ~@, !.buffer = @ \o "#"]
      [] c = "[" ->
            [st EXCEPT !.in_parentheses = @ + 1, !.buffer = @ \o "["]
      [] c = "]" ->
            [st EXCEPT !.in_parentheses = @ - 1, !.buffer = @ \o "]"]
      [] c = " " /\ ~st.in_hash /\ st.in_parentheses = 0 /\ st.in_brackets = 0 ->
            IF st.buffer # ""
            THEN [st EXCEPT !.syntax = Append(@, st.buffer), !.buffer = ""]
            ELSE st
      [] OTHER ->
            [st EXCEPT !.buffer = @ \o c]

\* one turn of the loop over the characters: the match on c, arm by arm
\* (in_brackets counts the parentheses and in_parentheses the brackets, as in
\* the source)
scan_char(st, c) ==
    CASE c = "(" ->
            [st EXCEPT !.in_brackets = @ + 1, !.buffer = @ \o "("]
      [] c = ")" ->
            [st EXCEPT !.in_brackets = @ - 1, !.buffer = @ \o ")"]
      [] c = "#" ->
            [st EXCEPT !.in_hash = ~@, !.buffer = @ \o "#"]
      [] c = "[" /\ st.in_brackets = 0 ->
            [st EXCEPT !.in_parentheses = @ + 1, !.buffer = @ \o "["]
      [] c = "]" /\ st.in_brackets = 0 ->
            [st EXCEPT !.in_parentheses = @ - 1, !.buffer = @ \o "]"]
      [] c = " " /\ ~st.in_hash /\ st.in_parentheses = 0 /\ st.in_brackets = 0 ->
            IF st.buffer # ""
            THEN [st EXCEPT !.syntax = Append(@, st.buffer), !.buffer = ""]
            ELSE st
      [] OTHER ->
            [st EXCEPT !.buffer = @ \o c]

RECURSIVE scan(_, _, _)
scan(code, i, st) ==
    IF i > Len(code) THEN st
    ELSE scan(code, i + 1, scan_char(st, Char(code, i)))

\* a tokenizer whose last flush does not test the buffer
analyze_syntax_flush_always(code) ==
    LET st == scan(normalize(code), 1, ScanInit)
    IN  Append(st.syntax, st.buffer)

analyze_syntax(code) ==
    LET st == scan(normalize(code), 1, ScanInit)
    IN  IF st.buffer # "" THEN Append(st.syntax, st.buffer) ELSE st.syntax

-----------------------------------------------------------------------------
(* The token loop of Executor::evaluate_program.                           *)

\* the names execute_command matches, as far as the model has them; every
\* other text takes the default arm
Commands ==
    {"add", "sub", "mul", "and", "or", "not", "equal", "less", "concat",
     "print", "eval", "if", "while", "exit", "get", "set", "del", "append",
     "insert", "reverse", "for", "map", "filter", "len", "pop", "size-stack",
     "var", "type", "mem", "free", "copy", "swap", "range", "decode",
     "encode", "cast"}

\* the commands of the source that the model leaves out: no program of the
\* model holds one of them as a token
Unmodelled ==
    {"div", "mod", "pow", "round", "repeat", "replace", "split", "join",
     "find", "input", "sort", "now-time", "sleep"}

\* the token tests with the variable lookup moved after the comment test and
\* the command names
classify_variable_last(token, store) ==
    CASE ParsesAsNumber(token) -> "number"
      [] token = "true" \/ token = "false" -> "bool"
      [] Char(token, 1) = "(" /\ Char(token, Len(token)) = ")" -> "string"
      [] Char(token, 1) = "[" /\ Char(token, Len(token)) = "]" -> "list"
      [] Contains(token, "#") -> "comment"
      [] token \in Commands -> "command"
      [] token \in DOMAIN store -> "variable"
      [] OTHER -> "command"

\* the rule of the token loop that takes the token: the tests of the loop
\* body in their order, the first that matches
classify(token, store) ==
    CASE ParsesAsNumber(token) -> "number"
      [] token = "true" \/ token = "false" -> "bool"
      [] Char(token, 1) = "(" /\ Char(token, Len(token)) = ")" -> "string"
      [] Char(token, 1) = "[" /\ Char(token, Len(token)) = "]" -> "list"
      [] token \in DOMAIN store -> "variable"
      [] Contains(token, "#") -> "comment"
      [] OTHER -> "command"

\* token[1..token.len() - 1]
inner(token) == SubSeq(token, 2, Len(token) - 1)

\* chars[0] and chars[chars.len() - 1] are read once the number and the bool
\* tests have failed: they are out of range on a token of no character
chars_out_of_range(token) ==
    /\ ~ParsesAsNumber(token)
    /\ token \notin {"true", "false"}
    /\ Len(token) = 0

\* token[1..token.len() - 1] is taken by the string and the list arm: it is
\* out of range when the token has fewer than two characters
slice_out_of_range(token) ==
    /\ Len(token) < 2
    /\ Len(token) >= 1
    /\ \/ Char(token, 1) = "(" /\ Char(token, Len(token)) = ")"
       \/ Char(token, 1) = "[" /\ Char(token, Len(token)) = "]"

\* the pieces of the log
show_stack(stk) ==
    "Stack[ " \o Join([i \in 1..Len(stk) |-> display(stk[i])], " | ") \o " ]"

TokenLine(token) == " <-  " \o token \o "\n"

ErrStack == "error: the stack has too few values, a default is returned\n"

ErrIndex == "error: the index is out of range\n"

ErrDecode == "error: the number could not be decoded\n"

ErrEncode == "error: the string could not be encoded\n"

CommentLine(token) == "comment: " \o ReplaceChars(token, {"#"}, "") \o "\n"

\* pop_stack without its log line
pop_stack_silent(s) ==
    IF s.stack # <<>>
    THEN [value |-> Last(s.stack), stack |-> Front(s.stack), log |-> s.log]
    ELSE [value |-> String(""), stack |-> <<>>, log |-> s.log]

\* Executor::pop_stack, on a record of the stack and the log
pop_stack(s) ==
    IF s.stack # <<>>
    THEN [value |-> Last(s.stack), stack |-> Front(s.stack), log |-> s.log]
    ELSE [value |-> String(""), stack |-> <<>>, log |-> Append(s.log, ErrStack)]

Running == status = "running"

Top == frames[Len(frames)]

\* the token loop of the innermost call has a token to process
AtToken ==
    /\ Running
    /\ frames # <<>>
    /\ Top.k = "eval"
    /\ Top.toks # <<>>
    /\ Len(log) < MaxLog

token == Head(Top.toks)

At(class) == AtToken /\ classify(token, memory) = class

AtCommand(name) == At("command") /\ token = name

\* show_stack and the token's line, which open every turn of the token loop
Traced == log \o <<show_stack(stack), TokenLine(token)>>

\* the stack and the log as a command finds them
Entry == [stack |-> stack, log |-> Traced]

\* the innermost call goes on to its next token
Advanced == [frames EXCEPT ![Len(frames)].toks = Tail(@)]

\* a call of evaluate_program(code)
Call(code) == [k |-> "eval", toks |-> analyze_syntax(code)]

\* the common end of a command that changes the stack and the log only
Finish(stk, lg) ==
    /\ stack' = stk
    /\ log' = lg
    /\ frames' = Advanced
    /\ UNCHANGED <<program, memory, output, status>>

-----------------------------------------------------------------------------
(* Literals, variables and comments.                                       *)

PushNumber ==
    /\ At("number")
    /\ Finish(Append(stack, Number(ParseNumber(token))), Traced)

PushBool ==
    /\ At("bool")
    /\ Finish(Append(stack, Bool(token = "true")), Traced)

PushString ==
    /\ At("string")
    /\ Finish(Append(stack, String(inner(token))), Traced)

\* a list literal whose tokens are the pieces of the split at white space
list_call_split(literal) ==
    [k |-> "eval", toks |-> split_whitespace(inner(literal))]

\* the call a list literal makes: the interior is split at white space, the
\* pieces are joined again with single spaces, and the text is evaluated
list_call(literal) == Call(Join(split_whitespace(inner(literal)), " "))

\* a list literal: ListCollect follows when the call returns
ListLiteral ==
    /\ At("list")
    /\ log' = Traced
    /\ frames' = Advanced
                 \o <<[k |-> "list", old_len |-> Len(stack)], list_call(token)>>
    /\ UNCHANGED <<program, stack, memory, output, status>>

\* the collected values in the order they are popped, not reversed
collected_popped_order(stk, old_len) ==
    IF Len(stk) > old_len
    THEN Append(SubSeq(stk, 1, old_len),
                List(Reverse(SubSeq(stk, old_len + 1, Len(stk)))))
    ELSE Append(stk, List(<<>>))

\* the values above old_len become one List (none when the stack is shorter)
collected(stk, old_len) ==
    IF Len(stk) > old_len
    THEN Append(SubSeq(stk, 1, old_len), List(SubSeq(stk, old_len + 1, Len(stk))))
    ELSE Append(stk, List(<<>>))

ListCollect ==
    /\ Running
    /\ frames # <<>>
    /\ Top.k = "list"
    /\ stack' = collected(stack, Top.old_len)
    /\ frames' = Front(frames)
    /\ UNCHANGED <<program, memory, output, log, status>>

ReadVariable ==
    /\ At("variable")
    /\ Finish(Append(stack, memory[token]), Traced)

Comment ==
    /\ At("comment")
    /\ Finish(stack, Append(Traced, CommentLine(token)))

\* the end of evaluate_program: the stack is shown once more; the outermost
\* call returns to run_stack
Return ==
    /\ Running
    /\ frames # <<>>
    /\ Top.k = "eval"
    /\ Top.toks = <<>>
    /\ log' = log \o <<show_stack(stack), "\n">>
    /\ frames' = Front(frames)
    /\ status' = IF Len(frames) = 1 THEN "done" ELSE "running"
    /\ UNCHANGED <<program, stack, memory, output>>

-----------------------------------------------------------------------------
(* Executor::execute_command: the commands that call no nested evaluation. *)

\* the first, second and third pop_stack of a command
P1 == pop_stack(Entry)

P2 == pop_stack(P1)

P3 == pop_stack(P2)

add ==
    /\ AtCommand("add")
    /\ Finish(Append(P2.stack, Number(get_number(P2.value) + get_number(P1.value))),
              P2.log)

sub ==
    /\ AtCommand("sub")
    /\ Finish(Append(P2.stack, Number(get_number(P2.value) - get_number(P1.value))),
              P2.log)

mul ==
    /\ AtCommand("mul")
    /\ Finish(Append(P2.stack, Number(get_number(P2.value) * get_number(P1.value))),
              P2.log)

and ==
    /\ AtCommand("and")
    /\ Finish(Append(P2.stack, Bool(get_bool(P2.value) /\ get_bool(P1.value))),
              P2.log)

or ==
    /\ AtCommand("or")
    /\ Finish(Append(P2.stack, Bool(get_bool(P2.value) \/ get_bool(P1.value))),
              P2.log)

not ==
    /\ AtCommand("not")
    /\ Finish(Append(P1.stack, Bool(~get_bool(P1.value))), P1.log)

equal ==
    /\ AtCommand("equal")
    /\ Finish(Append(P2.stack, Bool(get_string(P2.value) = get_string(P1.value))),
              P2.log)

less ==
    /\ AtCommand("less")
    /\ Finish(Append(P2.stack, Bool(get_number(P2.value) < get_number(P1.value))),
              P2.log)

concat ==
    /\ AtCommand("concat")
    /\ Finish(Append(P2.stack, String(get_string(P2.value) \o get_string(P1.value))),
              P2.log)

\* a print that writes the text without its newline
printed_bare(out, a) == out \o a

\* Executor::print of format!("{a}\n")
printed(out, a) == out \o a \o "\n"

print ==
    /\ AtCommand("print")
    /\ stack' = P1.stack
    /\ log' = P1.log
    /\ output' = printed(output, get_string(P1.value))
    /\ frames' = Advanced
    /\ UNCHANGED <<program, memory, status>>

\* the element get pushes, or the list itself past its end
get_result(list, index) ==
    IF Len(list) > index
    THEN [value |-> list[index + 1], error |-> <<>>]
    ELSE [value |-> List(list), error |-> <<ErrIndex>>]

get ==
    /\ AtCommand("get")
    /\ LET index == as_usize(get_number(P1.value))
           list == get_list(P2.value)
           r == get_result(list, index)
       IN  Finish(Append(P2.stack, r.value), P2.log \o r.error)

set_result(list, index, value) ==
    IF Len(list) > index
    THEN [value |-> List([list EXCEPT ![index + 1] = value]), error |-> <<>>]
    ELSE [value |-> List(list), error |-> <<ErrIndex>>]

set ==
    /\ AtCommand("set")
    /\ LET value == P1.value
           index == as_usize(get_number(P2.value))
           list == get_list(P3.value)
           r == set_result(list, index, value)
       IN  Finish(Append(P3.stack, r.value), P3.log \o r.error)

\* Vec::remove
Remove(list, index) ==
    SubSeq(list, 1, index) \o SubSeq(list, index + 2, Len(list))

del_result(list, index) ==
    IF Len(list) > index
    THEN [value |-> List(Remove(list, index)), error |-> <<>>]
    ELSE [value |-> List(list), error |-> <<ErrIndex>>]

del ==
    /\ AtCommand("del")
    /\ LET index == as_usize(get_number(P1.value))
           list == get_list(P2.value)
           r == del_result(list, index)
       IN  Finish(Append(P2.stack, r.value), P2.log \o r.error)

append ==
    /\ AtCommand("append")
    /\ LET data == P1.value
           list == get_list(P2.value)
       IN  Finish(Append(P2.stack, List(Append(list, data))), P2.log)

\* Vec::insert panics when the index is past the end of the list
insert ==
    /\ AtCommand("insert")
    /\ LET data == P1.value
           index == as_usize(get_number(P2.value))
           list == get_list(P3.value)
       IN  IF index <= Len(list)
           THEN Finish(Append(P3.stack,
                              List(SubSeq(list, 1, index) \o <<data>>
                                   \o SubSeq(list, index + 1, Len(list)))),
                       P3.log)
           ELSE /\ status' = "panicked"
                /\ stack' = P3.stack
                /\ log' = P3.log
                /\ UNCHANGED <<program, memory, output, frames>>

reverse ==
    /\ AtCommand("reverse")
    /\ Finish(Append(P1.stack, List(Reverse(get_list(P1.value)))), P1.log)

len ==
    /\ AtCommand("len")
    /\ LET data == P1.value
       IN  Finish(Append(P1.stack,
                         Number(CASE data.t = "List" -> Len(data.l)
                                  [] data.t = "String" -> Len(data.s)
                                  [] OTHER -> 1)),
                  P1.log)

pop ==
    /\ AtCommand("pop")
    /\ Finish(P1.stack, P1.log)

size_stack ==
    /\ AtCommand("size-stack")
    /\ Finish(Append(stack, Number(Len(stack))), Traced)

type ==
    /\ AtCommand("type")
    /\ Finish(Append(P1.stack,
                     String(CASE P1.value.t = "Number" -> "number"
                              [] P1.value.t = "String" -> "string"
                              [] P1.value.t = "Bool" -> "bool"
                              [] P1.value.t = "List" -> "list")),
              P1.log)

copy ==
    /\ AtCommand("copy")
    /\ Finish(P1.stack \o <<P1.value, P1.value>>, P1.log)

\* a swap that pushes the two values back in the order they were
swap_in_place ==
    /\ AtCommand("swap")
    /\ LET b == P1.value
           a == P2.value
       IN  Finish(P2.stack \o <<a, b>>, P2.log)

swap ==
    /\ AtCommand("swap")
    /\ LET b == P1.value
           a == P2.value
       IN  Finish(P2.stack \o <<b, a>>, P2.log)

RECURSIVE stepped(_, _, _)
\* (min..max).step_by(step): min, min + step, ... below max
stepped(min, max, step) ==
    IF min >= max THEN <<>>
    ELSE <<Number(min)>> \o stepped(min + step, max, step)

\* the three operands are cast with `as usize`; step_by panics on a step of 0
range ==
    /\ AtCommand("range")
    /\ LET step == as_usize(get_number(P1.value))
           max == as_usize(get_number(P2.value))
           min == as_usize(get_number(P3.value))
       IN  IF step # 0
           THEN Finish(Append(P3.stack, List(stepped(min, max, step))), P3.log)
           ELSE /\ status' = "panicked"
                /\ stack' = P3.stack
                /\ log' = P3.log
                /\ UNCHANGED <<program, memory, output, frames>>

decode ==
    /\ AtCommand("decode")
    /\ LET code == get_number(P1.value)
           result == char_from_u32(as_u32(code))
       IN  IF result # <<>>
           THEN Finish(Append(P1.stack, String(result[1])), P1.log)
           ELSE Finish(Append(P1.stack, Number(code)), Append(P1.log, ErrDecode))

encode ==
    /\ AtCommand("encode")
    /\ LET string == get_string(P1.value)
       IN  IF string # ""
           THEN Finish(Append(P1.stack, Number(ord(Char(string, 1)))), P1.log)
           ELSE Finish(Append(P1.stack, String(string)), Append(P1.log, ErrEncode))

\* the value cast pushes: the match on the name of the kind
cast_result(types, value) ==
    CASE types = "number" -> Number(get_number(value))
      [] types = "string" -> String(get_string(value))
      [] types = "bool" -> Bool(get_bool(value))
      [] types = "list" -> List(get_list(value))
      [] OTHER -> value

cast ==
    /\ AtCommand("cast")
    /\ Finish(Append(P2.stack, cast_result(get_string(P1.value), P2.value)),
              P2.log)

\* the default arm: a text that names no command is pushed as a String
unknown ==
    /\ At("command")
    /\ token \notin Commands \cup Unmodelled
    /\ Finish(Append(stack, String(token)), Traced)

-----------------------------------------------------------------------------
(* The variable store.                                                     *)

\* a store whose first write wins: or_insert alone
bind_keeps(store, name, value) ==
    [n \in DOMAIN store \cup {name} |-> IF n \in DOMAIN store THEN store[n] ELSE value]

\* memory.entry(name).and_modify(..).or_insert(..)
bind(store, name, value) ==
    [n \in DOMAIN store \cup {name} |-> IF n = name THEN value ELSE store[n]]

\* memory.remove(name)
unbind(store, name) == [n \in DOMAIN store \ {name} |-> store[n]]

\* the orders in which a HashMap may give its keys
Orderings(S) ==
    {o \in [1..Cardinality(S) -> S] :
        \A i, j \in 1..Cardinality(S) : o[i] = o[j] => i = j}

\* the line show_variables logs, for each order of the map
show_variables(store) ==
    {"memory { "
       \o Join([i \in 1..Len(o) |-> "'" \o o[i] \o "': " \o display(store[o[i]])],
               ", ")
       \o " }\n" : o \in Orderings(DOMAIN store)}

var ==
    /\ AtCommand("var")
    /\ LET name == get_string(P1.value)
           data == P2.value
       IN  /\ memory' = bind(memory, name, data)
           /\ stack' = P2.stack
           /\ \E line \in show_variables(bind(memory, name, data)) :
                  log' = Append(P2.log, line)
    /\ frames' = Advanced
    /\ UNCHANGED <<program, output, status>>

mem ==
    /\ AtCommand("mem")
    /\ \E o \in Orderings(DOMAIN memory) :
           Finish(Append(stack, List([i \in 1..Len(o) |-> String(o[i])])), Traced)

free ==
    /\ AtCommand("free")
    /\ LET name == get_string(P1.value)
       IN  /\ memory' = unbind(memory, name)
           /\ stack' = P1.stack
           /\ \E line \in show_variables(unbind(memory, name)) :
                  log' = Append(P1.log, line)
    /\ frames' = Advanced
    /\ UNCHANGED <<program, output, status>>

-----------------------------------------------------------------------------
(* Executor::execute_command: the commands that evaluate code.             *)

\* an eval whose sub-program starts on an empty stack of its own
eval_own_stack ==
    /\ AtCommand("eval")
    /\ LET code == get_string(P1.value)
       IN  /\ stack' = <<>>
           /\ log' = P1.log
           /\ frames' = Advanced \o <<Call(code)>>
    /\ UNCHANGED <<program, memory, output, status>>

eval ==
    /\ AtCommand("eval")
    /\ LET code == get_string(P1.value)
       IN  /\ stack' = P1.stack
           /\ log' = P1.log
           /\ frames' = Advanced \o <<Call(code)>>
    /\ UNCHANGED <<program, memory, output, status>>

\* the branches the other way round
if_branch_swapped(condition, code_else, code_if) ==
    IF condition THEN code_else ELSE code_if

\* the branch `if` evaluates
if_branch(condition, code_else, code_if) ==
    IF condition THEN code_if ELSE code_else

if ==
    /\ AtCommand("if")
    /\ LET condition == get_bool(P1.value)
           code_else == get_string(P2.value)
           code_if == get_string(P3.value)
       IN  /\ stack' = P3.stack
           /\ log' = P3.log
           /\ frames' = Advanced \o <<Call(if_branch(condition, code_else, code_if))>>
    /\ UNCHANGED <<program, memory, output, status>>

\* while with its operands the other way round
while_loop_swapped(first, second) ==
    [k |-> "while", cond |-> get_string(second), code |-> get_string(first),
     phase |-> "cond"]

\* the loop `while` starts: the first value popped is cond, the second code
while_loop(first, second) ==
    [k |-> "while", cond |-> get_string(first), code |-> get_string(second),
     phase |-> "cond"]

\* `while` pops its two texts and evaluates the condition for the first time
while ==
    /\ AtCommand("while")
    /\ LET loop == while_loop(P1.value, P2.value)
       IN  /\ stack' = P2.stack
           /\ log' = P2.log
           /\ frames' = Advanced \o <<loop, Call(loop.cond)>>
    /\ UNCHANGED <<program, memory, output, status>>

AtFrame(kind) == Running /\ frames # <<>> /\ Top.k = kind

\* a loop that breaks when the condition is true
loop_breaks_on_true(result) == get_bool(result)

\* the test of the loop: `!self.pop_stack().get_bool()` breaks it
loop_breaks(result) == ~get_bool(result)

\* the condition has been evaluated: its result is popped; false breaks the
\* loop, true evaluates the body
WhileTest ==
    /\ AtFrame("while")
    /\ Top.phase = "cond"
    /\ LET p == pop_stack([stack |-> stack, log |-> log])
       IN  /\ stack' = p.stack
           /\ log' = p.log
           /\ frames' = IF loop_breaks(p.value)
                        THEN Front(frames)
                        ELSE [frames EXCEPT ![Len(frames)].phase = "body"]
                             \o <<Call(Top.code)>>
    /\ UNCHANGED <<program, memory, output, status>>

\* the body has been evaluated: the loop turns and evaluates the condition
WhileAgain ==
    /\ AtFrame("while")
    /\ Top.phase = "body"
    /\ frames' = [frames EXCEPT ![Len(frames)].phase = "cond"] \o <<Call(Top.cond)>>
    /\ UNCHANGED <<program, stack, memory, output, log, status>>

\* an exit that returns to its caller
halt_returns == "running"

\* process::exit: the process ends, and no pending call resumes
halt == "exited"

exit ==
    /\ AtCommand("exit")
    /\ stack' = P1.stack
    /\ log' = P1.log
    /\ status' = halt
    /\ UNCHANGED <<program, memory, output, frames>>

\* the three pops for, map and filter share: code, vars, list
iteration(kind) ==
    [k |-> kind, code |-> get_string(P1.value), vars |-> get_string(P2.value),
     list |-> get_list(P3.value), result_list |-> <<>>, phase |-> "bind"]

Iterate(kind) ==
    /\ stack' = P3.stack
    /\ log' = P3.log
    /\ frames' = Advanced \o <<iteration(kind)>>
    /\ UNCHANGED <<program, memory, output, status>>

for ==
    /\ AtCommand("for")
    /\ Iterate("for")

map ==
    /\ AtCommand("map")
    /\ Iterate("map")

filter ==
    /\ AtCommand("filter")
    /\ Iterate("filter")

AtIteration == AtFrame("for") \/ AtFrame("map") \/ AtFrame("filter")

\* or_insert without and_modify: a name already stored keeps its value
bound_if_absent(store, name, x) ==
    IF name \in DOMAIN store THEN store ELSE bind(store, name, x)

\* the store with the loop variable written for the next element
bound(store, name, x) == bind(store, name, x)

\* one turn of the loop over the list: the element is written to the store
\* under vars and the body is evaluated
Bind ==
    /\ AtIteration
    /\ Top.phase = "bind"
    /\ Top.list # <<>>
    /\ memory' = bound(memory, Top.vars, Head(Top.list))
    /\ frames' = [frames EXCEPT ![Len(frames)].phase = "body"] \o <<Call(Top.code)>>
    /\ UNCHANGED <<program, stack, output, log, status>>

\* `for`: the body has been evaluated, nothing is collected
ForNext ==
    /\ AtFrame("for")
    /\ Top.phase = "body"
    /\ frames' = [frames EXCEPT ![Len(frames)].phase = "bind",
                                ![Len(frames)].list = Tail(@)]
    /\ UNCHANGED <<program, stack, memory, output, log, status>>

\* a map that collects the element instead of the body's result
map_entry_element(x, popped) == x

\* what map adds to its result: the value popped after the body
map_entry(x, popped) == popped

\* `map`: the body has been evaluated, one value is popped into the result
MapCollect ==
    /\ AtFrame("map")
    /\ Top.phase = "body"
    /\ LET p == pop_stack([stack |-> stack, log |-> log])
       IN  /\ stack' = p.stack
           /\ log' = p.log
           /\ frames' = [frames EXCEPT
                            ![Len(frames)].phase = "bind",
                            ![Len(frames)].list = Tail(@),
                            ![Len(frames)].result_list =
                                Append(@, map_entry(Head(Top.list), p.value))]
    /\ UNCHANGED <<program, memory, output, status>>

\* what filter adds to its result: the element, when the popped value is true
filter_entry(x, popped) == IF get_bool(popped) THEN <<x>> ELSE <<>>

\* `filter`: the body has been evaluated, one value is popped as the test
FilterCollect ==
    /\ AtFrame("filter")
    /\ Top.phase = "body"
    /\ LET p == pop_stack([stack |-> stack, log |-> log])
       IN  /\ stack' = p.stack
           /\ log' = p.log
           /\ frames' = [frames EXCEPT
                            ![Len(frames)].phase = "bind",
                            ![Len(frames)].list = Tail(@),
                            ![Len(frames)].result_list =
                                @ \o filter_entry(Head(Top.list), p.value)]
    /\ UNCHANGED <<program, memory, output, status>>

\* the list is exhausted: map and filter push their result, for pushes nothing
iteration_result(kind, result_list) ==
    IF kind = "for" THEN <<>> ELSE <<List(result_list)>>

IterationDone ==
    /\ AtIteration
    /\ Top.phase = "bind"
    /\ Top.list = <<>>
    /\ stack' = stack \o iteration_result(Top.k, Top.result_list)
    /\ frames' = Front(frames)
    /\ UNCHANGED <<program, memory, output, log, status>>

-----------------------------------------------------------------------------
(* The programs run_stack is given.                                        *)

\* the literals the generated programs push before a command
ArgTokens == {"1", "-1", "[7 8]", "(x)", "true", "()"}

\* the last token of a generated program: every command of the model, a
\* text that names none, and a comment
LastTokens == Commands \cup {"foo", "#note#"}

RECURSIVE TokenSeqs(_, _)
\* the sequences of at most n tokens of the set
TokenSeqs(tokens, n) ==
    IF n = 0 THEN {<<>>}
    ELSE {<<>>} \cup {<<t>> \o q : t \in tokens, q \in TokenSeqs(tokens, n - 1)}

GeneratedPrograms ==
    {Join(Append(args, c), " ") : args \in TokenSeqs(ArgTokens, MaxArgs),
                                  c \in LastTokens}

RECURSIVE ListLiteralOf(_)
\* the list literal of the n numbers 7, 8, ...
ListLiteralOf(n) ==
    "[" \o Join([i \in 1..n |-> NumberToString(6 + i)], " ") \o "]"

Quoted(text) == "(" \o text \o ")"

\* get, set, del and insert on every list and index of the bounds
IndexedPrograms ==
    UNION {{ListLiteralOf(n) \o " " \o NumberToString(i) \o " get",
            ListLiteralOf(n) \o " " \o NumberToString(i) \o " del",
            ListLiteralOf(n) \o " " \o NumberToString(i) \o " (v) set",
            ListLiteralOf(n) \o " " \o NumberToString(i) \o " (v) insert"} :
           n \in 0..MaxLen, i \in (0 - MaxIndex)..MaxIndex}

\* while loops whose two texts differ
WhilePrograms ==
    {"0 (1 add) (copy 2 less) while",
     "0 (copy 2 less) (1 add) while",
     "(x) () while",
     "() (x) while",
     "(a) (false) while",
     "(false) (a) while",
     "true (false) () while",
     "[1 2] (0 del) (copy) while",
     "while 4"}

\* exit at every depth of nesting
ExitPrograms ==
    {"1 0 exit 5 print",
     "(1 0 exit 2) eval 3",
     "(1 0 exit 2) (9) true if 3",
     "[1 0 exit 2] 3",
     "[1 2] (x) (x 0 exit 5) for 4",
     "[1 2] (x) (x 0 exit 5) map 4",
     "[1 2] (x) (x 0 exit 5) filter 4",
     "(7) (0 exit 1) while 8",
     "(0 exit 1) (true) while 8",
     "((2 exit 6) eval 7) eval 8",
     "(a) print exit (b) print"}

\* the names a value is stored under before the name is used as a token
StoredNames ==
    {"x", "add", "print", "exit", "#c#", "a#b#", "1", "-2", "true", "false",
     "(s)", "[1]", "foo"}

ClassPrograms ==
    {"5 " \o Quoted(n) \o " var " \o n : n \in StoredNames}
    \cup {"5 " \o Quoted(n) \o " var 2 3 " \o n : n \in StoredNames}

\* the texts of the string literals
Texts ==
    {"", "a", "a b", "a  b", " a ", "a\tb", "a\nb", "a\rb", "a" \o FullWidthSpace \o "b",
     "(a) b", "(a (b) c)", "[a b]", "] [", "1", "true", "add", "1 2 add"}

StringPrograms == {Quoted(text) : text \in Texts}

\* the bodies of for, map and filter
Bodies ==
    {"", "x", "x x", "pop", "x 8 less", "9 (x) var", "(x) free", "x 1 add",
     "false", "(x) (9) var x"}

IterationPrograms ==
    {pre \o ListLiteralOf(n) \o " (x) " \o Quoted(body) \o " " \o kind \o " x" :
        pre \in {"", "5 true "}, n \in 0..MaxLen, body \in Bodies,
        kind \in {"for", "map", "filter"}}
    \cup {"1 (x) var [7 8] (x) (x) for x",
          "[1 2] (x) (x) for x",
          "[1 2] (x) (x) for",
          "[[1] (a) true] (y) (y type) map y",
          "(ab) (c) (c c concat) map",
          "[1 2] (x) ([3 4] (x) (x) for) map x"}

\* the branches and the conditions of if
Branches == {"", "1", "2", "1 2", "(a) print", "9 (y) var", "pop"}

Conditions == {"true", "false", "0", "1", "()", "(a)", "[]", "[0]", "(false)"}

IfPrograms ==
    {"4 " \o Quoted(a) \o " " \o Quoted(b) \o " " \o c \o " if" :
        a \in Branches, b \in Branches, c \in Conditions}
    \cup {"(1) (2) true if", "(1) (2) false if", "true if", "(1) true if"}

\* the steps of the range programs: zero and a negative step among them
Steps == {-1, 0, 1, 2}

\* range on every min and max of the bounds, alone and above another value
RangePrograms ==
    {pre \o NumberToString(min) \o " " \o NumberToString(max) \o " "
         \o NumberToString(step) \o " range" :
        pre \in {"", "(u) "}, min \in (0 - MaxIndex)..MaxIndex,
        max \in (0 - MaxIndex)..MaxIndex, step \in Steps}
    \cup {"0 10 2 range", "0 10 3 range", "2 9 4 range"}

\* the numbers given to decode: both ends of the scalar values and of the
\* surrogates, larger numbers and negative numbers
Codes ==
    {-2147483647, -55296, -97, -1, 0, 32, 65, 97, 126, 55295, 55296, 56000, 57343,
     57344, 1114111, 1114112, 2147483647}

DecodePrograms ==
    {pre \o NumberToString(n) \o " decode" : pre \in {"", "(u) "}, n \in Codes}
    \cup {"decode", "(97) decode", "[7 8] decode"}

\* the texts given to encode
EncodePrograms ==
    {pre \o v \o " encode" :
        pre \in {"", "(u) "},
        v \in {"()", "(a)", "(ab)", "(A)", "( )", "(~)", "5", "-5", "true", "[]",
               "[7 8]"}}
    \cup {"encode", "97 decode encode", "(a) encode decode"}

\* the values given to cast, and the names of the kinds
CastValues ==
    {"1", "0", "-1", "12", "(12)", "(-3)", "(x)", "()", "(false)", "(0)", "(ab)",
     "( )", "true", "false", "[]", "[7 8]", "[0]", "[(a) true]"}

CastKinds ==
    {"(number)", "(string)", "(bool)", "(list)", "(foo)", "(Number)", "()", "1",
     "true", "[list]"}

CastPrograms ==
    {pre \o v \o " " \o k \o " cast" :
        pre \in {"", "(u) "}, v \in CastValues, k \in CastKinds}
    \cup {"cast", "(number) cast", "(list) cast"}

\* the characters the tokenizer tells apart, and a letter
ScanChars == {" ", "(", ")", "[", "]", "#", "a"}

RECURSIVE TextsOver(_, _)
\* the texts of at most n characters of the set
TextsOver(chars, n) ==
    IF n = 0 THEN {""}
    ELSE {""} \cup {c \o s : c \in chars, s \in TextsOver(chars, n - 1)}

\* every short text, and longer ones with nested and unbalanced delimiters
\* and with the white space the tokenizer replaces
ScanTexts ==
    TextsOver(ScanChars, MaxText)
    \cup {"([) a", "(]) a", "[(]) a] b", "(a [b) c] d", "[a (b] c) d e",
          "#a (b# c) d", "(a #b) c# d", "[a #b] c# d", "a\tb", "a\nb\rc",
          "a" \o FullWidthSpace \o "b", "(a\tb) c", "[a\nb]\tc", "#a\rb# c",
          ")a( b", "]a[ b ] c", "a  b   c ", "  a", "((a) b) c) d"}

\* interiors of list literals that pop nothing but what they have pushed
Interiors ==
    {"", "1 2 3", "1 2 add", "(a) (b c)", "7 copy", "1 2 swap", "1 2 pop",
     "[1] 2", "[1 [2 3]] [ ]", "true 0", "1 (x) var 4", "(a  b)", "(1 2 add) eval",
     "[7 8] (x) (x 1 add) map"}

\* interiors that pop values they have not pushed
PoppingInteriors ==
    {"pop", "pop pop", "pop pop pop", "add", "copy", "swap", "pop 7 8 9",
     "(x) var", "7 swap", "print"}

\* list literals on the empty stack and above two values
ListPrograms ==
    {pre \o "[" \o interior \o "]" :
        pre \in {"", "1 2 "}, interior \in Interiors \cup PoppingInteriors}
    \cup {"[1 2 3] reverse", "[(a b) 1]", "[ 1   2 ]", "[(a\tb)]", "[[(a b)] (c d)]",
          "[#a b# 1]", "1 2 [pop pop] 3"}

\* prints among commands that log errors, trace lines and comments
OutputPrograms ==
    {"pop (a) print [] 1 get #c# 5 print",
     "() encode 55296 decode (a) print",
     "[1 (x)] print true print 7 print", "print", "(a b) print (c) print", "[7] 5 (v) set print [7] 5 del print",
     "(1 print) eval [2 print]", "(3 print) (4 print) true if",
     "[1 2] (x) (x print) for", "#c# (a) print #d#"}

\* writes, reads and frees of the store, at the top level and nested
StorePrograms ==
    {"1 (x) var 2 (x) var x", "1 (x) var 2 (x) var mem", "1 (x) var 2 (y) var mem",
     "1 (x) var (x) free x mem", "1 (x) var (y) free x", "(y) free mem",
     "1 (x) var 2 (x) var x (x) free x", "(1 (x) var) eval x",
     "1 (x) var (2 (x) var) eval x", "1 (x) var [2 (x) var] x",
     "1 (add) var (add) free 2 3 add", "1 (#c#) var (#c#) free #c#",
     "1 (x) var 2 (y) var (x) free y x mem", "1 (x) var x (x) free x 2 (x) var x",
     "1 (x) var (x) free (x) free x"}

\* loops whose condition and body print, so that Output counts their turns
TurnPrograms ==
    {"(1 print) (false) while", "0 (copy print 1 add) (copy 2 less) while",
     "(b print) ((c) print false) while", "(b print) ((c) print) while",
     "1 (b print 0) ((c) print) while", "true (b print) () while",
     "1 1 (b print) () while", "(true) () while"}

\* the literals below a round trip, and the round trips `swap swap` and
\* `copy pop` above every sequence of them; three more with a store and Output
RoundTripTokens == {"1", "(x)", "true", "[7 8]"}

RoundTrips == {<<"swap", "swap">>, <<"copy", "pop">>}

RoundTripPrograms ==
    {Join(pre \o trip, " ") : pre \in TokenSeqs(RoundTripTokens, MaxBelow),
                              trip \in RoundTrips}
    \cup {"7 (v) var (o) print 1 (x) swap swap", "7 (v) var (o) print 1 copy pop",
          "1 2 3 swap", "1 2 copy"}

\* the texts of at most MaxText characters without `#` whose parentheses and
\* brackets are balanced: no closing one before its opening one, none open at
\* the end
Balanced(text) ==
    \A i \in 0..Len(text) :
        LET st == scan(SubSeq(text, 1, i), 1, ScanInit)
        IN  /\ st.in_brackets >= 0
            /\ st.in_parentheses >= 0
            /\ i = Len(text) => st.in_brackets = 0 /\ st.in_parentheses = 0

BalancedTexts == {text \in TextsOver(ScanChars \ {"#"}, MaxText) : Balanced(text)}

\* the store of Executor::new
NoVariables == [n \in {} |-> n]

\* what is run before a text P, with the stack, store and Output it leaves
Starts ==
    {[text |-> "", stack |-> <<>>, memory |-> NoVariables, output |-> ""],
     [text |-> "3 4", stack |-> <<Number(3), Number(4)>>,
      memory |-> NoVariables, output |-> ""],
     [text |-> "6 5 (v) var 7 print", stack |-> <<Number(6)>>,
      memory |-> [n \in {"v"} |-> Number(5)], output |-> "7\n"],
     [text |-> "1 (eval) var", stack |-> <<>>,
      memory |-> [n \in {"eval"} |-> Number(1)], output |-> ""]}

\* the texts P that are run inline and through eval
EvalTexts ==
    {"", "2", "1 2 add", "pop pop", "9 (w) var", "(a b) print", "(7) eval",
     "(v) free", "(1) (2) true if", "(b) (0) while", "[8] (x) (x) map",
     "[1 [2]] len"}

Inline(start, text) ==
    IF start.text = "" THEN text ELSE start.text \o " " \o text

Evaluated(start, text) ==
    IF start.text = "" THEN Quoted(text) \o " eval"
    ELSE start.text \o " " \o Quoted(text) \o " eval"

\* P after every start, inline and through eval, as long as the program is
\* short; every balanced text through eval on the empty stack
EvalPrograms ==
    {Inline(c[1], c[2]) : c \in Starts \X EvalTexts}
    \cup {Evaluated(c[1], c[2]) :
             c \in {d \in Starts \X EvalTexts : Len(d[1].text) + Len(d[2]) <= 32}}
    \cup {Quoted(text) \o " eval" : text \in BalancedTexts}

\* texts of white space, alone, evaluated and in a list literal
BlankPrograms == {"( ) eval", "(\n) eval", "() eval ", "\t\n", "[\t]", " [ ] "}

\* short loops: the condition takes its results from the values below, or
\* pushes a constant; the body prints or pushes
ShortLoops ==
    {"while", "while 4", "(x) () while", "true (b print) () while",
     "1 1 (b print) () while", "0 1 1 (b print) () while",
     "1 0 1 (b print) () while", "(b print) (0) while", "(9) (0) while",
     "(9) (1) while", "(b print) (c) while"}

Programs ==
    EvalPrograms \cup BlankPrograms \cup RoundTripPrograms \cup ShortLoops \cup TurnPrograms \cup StorePrograms \cup OutputPrograms \cup ListPrograms \cup ScanTexts \cup GeneratedPrograms \cup IndexedPrograms \cup WhilePrograms \cup ExitPrograms
    \cup ClassPrograms \cup StringPrograms \cup IterationPrograms \cup IfPrograms
    \cup RangePrograms \cup DecodePrograms \cup EncodePrograms \cup CastPrograms

-----------------------------------------------------------------------------
(* run_stack: Executor::new, then evaluate_program(src).                   *)

Init ==
    /\ program \in Programs
    /\ stack = <<>>
    /\ memory = NoVariables
    /\ output = ""
    /\ log = <<>>
    /\ frames = <<Call(program)>>
    /\ status = "running"

Next ==
    \/ PushNumber \/ PushBool \/ PushString \/ ListLiteral \/ ListCollect
    \/ ReadVariable \/ Comment \/ Return
    \/ add \/ sub \/ mul \/ and \/ or \/ not \/ equal \/ less \/ concat
    \/ print \/ get \/ set \/ del \/ append \/ insert \/ reverse \/ len
    \/ pop \/ size_stack \/ type \/ copy \/ swap \/ range \/ decode \/ encode
    \/ cast \/ unknown
    \/ var \/ mem \/ free
    \/ eval \/ if \/ while \/ WhileTest \/ WhileAgain \/ exit
    \/ for \/ map \/ filter \/ Bind \/ ForNext \/ MapCollect \/ FilterCollect
    \/ IterationDone

Spec == Init /\ [][Next]_vars

\* run_stack on the short loops: the interpreter is one sequential call, so a
\* step that can be taken is taken; LoopNext lists the steps these programs
\* take
LoopInit == program \in ShortLoops /\ Init

LoopNext ==
    \/ PushNumber \/ PushBool \/ PushString \/ unknown \/ print \/ Return
    \/ while \/ WhileTest \/ WhileAgain

LoopSpec == LoopInit /\ [][LoopNext]_vars /\ WF_vars(LoopNext)

-----------------------------------------------------------------------------
(* What the claims read.                                                   *)

\* the number of values each command pops before anything else
Pops ==
    [c \in Commands |->
        CASE c \in {"size-stack", "mem"} -> 0
          [] c \in {"not", "print", "eval", "exit", "reverse", "len", "pop",
                    "type", "free", "copy", "decode", "encode"} -> 1
          [] c \in {"if", "set", "insert", "for", "map", "filter", "range"} -> 3
          [] OTHER -> 2]

\* the underflow lines of a log
Underflows(lg) == Cardinality({i \in 1..Len(lg) : lg[i] = ErrStack})

Done == status = "done"

-----------------------------------------------------------------------------
(* C1: stack underflow is recovered.  A command that finds fewer values on *)
(* the stack than it pops logs one underflow line per missing value,       *)
(* leaves Output alone (print appends the empty String it was given and a  *)
(* newline) and goes on: it does not panic, and unless it is exit the run  *)
(* continues (the rest of insert is Vec::insert, which panics on an index  *)
(* past the end of the list it is given, and the rest of range is step_by, *)
(* which panics on a step of 0: C2).  The missing value is the empty       *)
(* String: copy, swap, type and append show it.  The same holds of the pop *)
(* that follows the condition of while and the body of map and filter.     *)
(* The program `add` ends with the stack <<Number 0>> and two underflow    *)
(* lines.                                                                  *)

\* insert is given a list that is empty for want of a third value, and an
\* index past its end: the rest of the command, Vec::insert, panics (see C2)
InsertPastEnd == Len(stack) = 2 /\ get_number(stack[1]) > 0

\* range is given a step that `as usize` makes 0 (the empty String in want of
\* a first value among them): the rest of the command, step_by, panics
RangeStepZero == stack = <<>> \/ get_number(Last(stack)) <= 0

C1_CommandRecovers ==
    \A c \in Commands :
        AtCommand(c) /\ Len(stack) < Pops[c] =>
            /\ Underflows(log') = Underflows(log) + (Pops[c] - Len(stack))
            /\ output' = IF c = "print" THEN output \o "\n" ELSE output
            /\ status' = CASE c = "exit" -> "exited"
                            [] c = "insert" /\ InsertPastEnd -> "panicked"
                            [] c = "range" /\ RangeStepZero -> "panicked"
                            [] OTHER -> "running"
            /\ status' = "running" => SubSeq(frames', 1, Len(frames)) = Advanced
            /\ c = "copy" => stack' = <<String(""), String("")>>
            /\ c = "swap" => stack' = stack \o [i \in 1..(2 - Len(stack)) |-> String("")]
            /\ c = "type" => stack' = <<String("string")>>
            /\ c = "append" =>
                   stack' = <<List(IF stack = <<>> THEN <<String("")>> ELSE stack)>>
            /\ c = "add" => stack' = <<Number(IF stack = <<>> THEN 0
                                              ELSE get_number(stack[1]))>>

C1_LoopPopRecovers ==
    /\ stack = <<>>
    /\ \/ AtFrame("while") /\ Top.phase = "cond"
       \/ AtFrame("map") /\ Top.phase = "body"
       \/ AtFrame("filter") /\ Top.phase = "body"
    => /\ Underflows(log') = Underflows(log) + 1
       /\ output' = output
       /\ status' = "running"
       /\ stack' = <<>>
       /\ Top.k = "map" => Last(Last(frames').result_list) = String("")
       /\ Top.k = "filter" => Last(frames').result_list = Top.result_list
       /\ Top.k = "while" => frames' = Front(frames)

C1_AddOnEmptyStack ==
    program = "add" /\ Done => stack = <<Number(0)>> /\ Underflows(log) = 2

C1_UnderflowRecovered ==
    /\ [](C1_AddOnEmptyStack)
    /\ [][C1_CommandRecovers /\ C1_LoopPopRecovers]_vars

\* `add` has run on the empty stack
C1_Witness ==
    program = "add" /\ Done /\ stack = <<Number(0)>> /\ Underflows(log) = 2

-----------------------------------------------------------------------------
(* C2: apart from exit, no command is fatal: whatever the stack and the    *)
(* store, a command token other than exit (range with step >= 1 and        *)
(* min <= max only) leaves the run going, with the token consumed.         *)

\* the operands range is about to pop are in its documented domain
RangeDefined ==
    /\ get_number(P1.value) >= 1
    /\ get_number(P3.value) <= get_number(P2.value)

C2_NoCommandFatal ==
    [][\A c \in Commands \ {"exit"} :
           AtCommand(c) /\ (c = "range" => RangeDefined) =>
               status' = "running" /\ SubSeq(frames', 1, Len(frames)) = Advanced]_vars

-----------------------------------------------------------------------------
(* C3: get, set and del on a list L and an integer index i.  For i < 0 or  *)
(* i >= Len(L) the command logs the index error and pushes L back as a     *)
(* List; for 0 <= i < Len(L), get pushes element i, set pushes L with      *)
(* element i replaced, del pushes L without element i, and nothing is      *)
(* logged beyond the trace.                                                *)

\* the operands of get and del: a List under a Number
IndexOperands ==
    /\ Len(stack) >= 2
    /\ stack[Len(stack)].t = "Number"
    /\ stack[Len(stack) - 1].t = "List"

\* the operands of set: a List under a Number under the new value
SetOperands ==
    /\ Len(stack) >= 3
    /\ stack[Len(stack) - 1].t = "Number"
    /\ stack[Len(stack) - 2].t = "List"

\* what the claim has the command push and log
C3_Expected(c, L, i, v, rest) ==
    IF i < 0 \/ i >= Len(L)
    THEN /\ stack' = Append(rest, List(L))
         /\ log' = Append(Traced, ErrIndex)
    ELSE /\ log' = Traced
         /\ stack' = Append(rest,
                CASE c = "get" -> L[i + 1]
                  [] c = "set" -> List([L EXCEPT ![i + 1] = v])
                  [] c = "del" -> List(SubSeq(L, 1, i) \o SubSeq(L, i + 2, Len(L))))

C3_IndexChecked ==
    [][/\ \A c \in {"get", "del"} :
              AtCommand(c) /\ IndexOperands =>
                  C3_Expected(c, stack[Len(stack) - 1].l, stack[Len(stack)].n,
                              stack[Len(stack)], SubSeq(stack, 1, Len(stack) - 2))
       /\ AtCommand("set") /\ SetOperands =>
              C3_Expected("set", stack[Len(stack) - 2].l, stack[Len(stack) - 1].n,
                          stack[Len(stack)], SubSeq(stack, 1, Len(stack) - 3))]_vars

-----------------------------------------------------------------------------
(* C4, as stated: of the two values while pops, the first (the top of the  *)
(* stack) is the loop body and the second is the condition.                *)

\* while is about to run on two values
WhileOperands == AtCommand("while") /\ Len(stack) >= 2

\* the loop that `while` has just started, in the next state
StartedLoop == frames'[Len(frames) + 1]

C4_FirstPoppedIsBody ==
    [][WhileOperands =>
           /\ StartedLoop.code = get_string(stack[Len(stack)])
           /\ StartedLoop.cond = get_string(stack[Len(stack) - 1])
           /\ Last(frames') = Call(get_string(stack[Len(stack) - 1]))]_vars

(* C4, amended: the first value popped (the top of the stack) is the       *)
(* condition and the second is the body.  The condition is evaluated       *)
(* first; each time its result is true the body is evaluated and then the  *)
(* condition again; the loop ends when the result is false.                *)

C4_Operands ==
    WhileOperands =>
        /\ StartedLoop.cond = get_string(stack[Len(stack)])
        /\ StartedLoop.code = get_string(stack[Len(stack) - 1])
        /\ Last(frames') = Call(get_string(stack[Len(stack)]))
        /\ stack' = SubSeq(stack, 1, Len(stack) - 2)

C4_Turns ==
    AtFrame("while") /\ stack # <<>> =>
        IF Top.phase = "body"
        THEN frames' = [frames EXCEPT ![Len(frames)].phase = "cond"]
                       \o <<Call(Top.cond)>>
        ELSE IF get_bool(Last(stack))
        THEN frames' = [frames EXCEPT ![Len(frames)].phase = "body"]
                       \o <<Call(Top.code)>>
        ELSE frames' = Front(frames)

C4_FirstPoppedIsCondition == [][C4_Operands /\ C4_Turns]_vars

\* a loop whose two texts differ has evaluated its body and is testing again
C4_Witness ==
    /\ AtFrame("while")
    /\ Top.phase = "cond"
    /\ Top.cond # Top.code
    /\ program = "0 (1 add) (copy 2 less) while"
    /\ stack = <<Number(1), Bool(TRUE)>>

-----------------------------------------------------------------------------
(* C5: exit ends the run at any depth of nesting.  The step that executes  *)
(* exit leaves the run exited, and from then on the stack, the store,      *)
(* Output, Log and every pending evaluation stay as they are: no later     *)
(* token is processed and no enclosing command resumes.                    *)

C5_ExitIsFinal ==
    [][/\ AtCommand("exit") => status' = "exited"
       /\ status = "exited" =>
              UNCHANGED <<stack, memory, output, log, frames, status>>]_vars

\* exit has run inside the body of a map inside a list-free program, with
\* tokens pending in the body and at the top level
C5_Witness ==
    /\ status = "exited"
    /\ Len(frames) = 3
    /\ frames[2].k = "map"
    /\ Len(frames[3].toks) > 1
    /\ Len(frames[1].toks) > 0

-----------------------------------------------------------------------------
(* C6: a token is taken by the first rule that matches, in the order       *)
(* number, true/false, (string), [list], stored variable, comment,         *)
(* command.  So a token that names a stored variable pushes the variable's *)
(* value even when it is a command name or holds a `#`, and a literal is   *)
(* pushed as the literal even when a variable has its text as its name.    *)

C6_Rule ==
    AtToken =>
        IF ParsesAsNumber(token)
        THEN stack' = Append(stack, Number(ParseNumber(token)))
        ELSE IF token \in {"true", "false"}
        THEN stack' = Append(stack, Bool(token = "true"))
        ELSE IF Char(token, 1) = "(" /\ Char(token, Len(token)) = ")"
        THEN stack' = Append(stack, String(SubSeq(token, 2, Len(token) - 1)))
        ELSE IF Char(token, 1) = "[" /\ Char(token, Len(token)) = "]"
        THEN /\ stack' = stack
             /\ frames'[Len(frames) + 1] = [k |-> "list", old_len |-> Len(stack)]
        ELSE IF token \in DOMAIN memory
        THEN /\ stack' = Append(stack, memory[token])
             /\ UNCHANGED <<memory, output, status>>
             /\ frames' = Advanced
        ELSE IF Contains(token, "#")
        THEN /\ Len(log') = Len(log) + 3
             /\ UNCHANGED <<stack, memory, output, status>>
        ELSE token \in Commands => log' # log

\* the programs `5 (n) var n`: what the last token pushes
C6_Stored ==
    Done =>
    \A n \in StoredNames :
        program = "5 " \o Quoted(n) \o " var " \o n =>
            stack = <<CASE n \in {"1", "-2"} -> Number(ParseNumber(n))
                        [] n \in {"true", "false"} -> Bool(n = "true")
                        [] n = "(s)" -> String("s")
                        [] n = "[1]" -> List(<<Number(1)>>)
                        [] OTHER -> Number(5)>>

C6_FirstRuleWins == [](C6_Stored) /\ [][C6_Rule]_vars

\* the token `add` has pushed the value stored under the name add
C6_Witness ==
    program = "5 (add) var add" /\ Done /\ stack = <<Number(5)>>

-----------------------------------------------------------------------------
(* C7: the one-token program (text) pushes exactly the String text, for    *)
(* every text with balanced parentheses and no `#`, white space included.  *)

C7_StringRoundTrip ==
    Done => \A text \in Texts : program = Quoted(text) => stack = <<String(text)>>

-----------------------------------------------------------------------------
(* C8: for, map and filter pop the body, the variable name and the list,   *)
(* in that order; before each evaluation of the body the element is        *)
(* written to the store under the name, replacing what was there; no step  *)
(* of the loop other than that write (and the body itself) touches the     *)
(* store, so nothing is restored.  After a loop over a non-empty list      *)
(* whose body does not write or free the name, the name holds the last     *)
(* element, and a later token reads it: `[1 2] (x) (x) for x` ends with    *)
(* Number 2 on top.                                                        *)

IterationKinds == {"for", "map", "filter"}

C8_Pops ==
    \A kind \in IterationKinds :
        AtCommand(kind) /\ Len(stack) >= 3 =>
            /\ stack' = SubSeq(stack, 1, Len(stack) - 3)
            /\ Last(frames').k = kind
            /\ Last(frames').code = get_string(stack[Len(stack)])
            /\ Last(frames').vars = get_string(stack[Len(stack) - 1])
            /\ Last(frames').list = get_list(stack[Len(stack) - 2])
            /\ memory' = memory

C8_Writes ==
    AtIteration =>
        IF Top.phase = "bind" /\ Top.list # <<>>
        THEN /\ Last(frames') = Call(Top.code)
             /\ DOMAIN memory' = DOMAIN memory \cup {Top.vars}
             /\ memory'[Top.vars] = Head(Top.list)
             /\ \A n \in DOMAIN memory \ {Top.vars} : memory'[n] = memory[n]
        ELSE memory' = memory

\* the bodies that neither write nor free x
ReadingBodies == {"", "x", "x x", "pop", "x 8 less", "x 1 add", "false"}

\* the programs `pre L (x) (body) kind x` over a non-empty list of n elements
\* whose body neither writes nor frees x
ReadingPrograms ==
    {[text |-> pre \o ListLiteralOf(n) \o " (x) " \o Quoted(body) \o " " \o kind \o " x",
      n |-> n] :
        pre \in {"", "5 true "}, n \in 1..MaxLen, body \in ReadingBodies,
        kind \in IterationKinds}

C8_Persists ==
    /\ program = "[1 2] (x) (x) for x" /\ Done =>
           Last(stack) = Number(2) /\ memory["x"] = Number(2)
    /\ program = "1 (x) var [7 8] (x) (x) for x" /\ Done =>
           Last(stack) = Number(8) /\ memory["x"] = Number(8)
    /\ Done =>
           \A c \in ReadingPrograms :
               program = c.text =>
                   Last(stack) = Number(6 + c.n) /\ memory["x"] = Number(6 + c.n)

C8_BindingPersists == [](C8_Persists) /\ [][C8_Pops /\ C8_Writes]_vars

\* a for loop over two elements has ended and the token x has read the last
C8_Witness ==
    /\ program = "1 (x) var [7 8] (x) (x) for x"
    /\ Done
    /\ stack = <<Number(7), Number(8), Number(8)>>
    /\ memory["x"] = Number(8)

-----------------------------------------------------------------------------
(* C9: map collects, for each element in order, the value popped right     *)
(* after the body's evaluation (the empty String when the stack is empty), *)
(* so its result has one entry per element; filter keeps the element       *)
(* itself, in order, exactly when the value popped after the body is true; *)
(* map and filter push their result as one List when the list is           *)
(* exhausted, and for pushes nothing.                                      *)

\* the value popped after a body: the top of the stack, or the default
Popped == IF stack # <<>> THEN Last(stack) ELSE String("")

C9_Collects ==
    /\ AtFrame("map") /\ Top.phase = "body" =>
           /\ Last(frames').result_list = Append(Top.result_list, Popped)
           /\ Last(frames').list = Tail(Top.list)
           /\ stack' = Front(stack)
    /\ AtFrame("filter") /\ Top.phase = "body" =>
           /\ Last(frames').result_list =
                  IF get_bool(Popped) THEN Append(Top.result_list, Head(Top.list))
                  ELSE Top.result_list
           /\ Last(frames').list = Tail(Top.list)
           /\ stack' = Front(stack)
    /\ AtFrame("for") /\ Top.phase = "body" =>
           /\ Last(frames').list = Tail(Top.list)
           /\ stack' = stack
    /\ AtIteration /\ Top.phase = "bind" /\ Top.list = <<>> =>
           stack' = IF Top.k = "for" THEN stack
                    ELSE Append(stack, List(Top.result_list))
    /\ \A kind \in IterationKinds :
           AtCommand(kind) => Last(frames').result_list = <<>>

\* the program `pre L (x) (body) kind x` has ended: its stack below the
\* value the last token pushed
C9_Below == SubSeq(stack, 1, Len(stack) - 1)

\* the programs `pre L (x) (body) kind x` over a list of n elements
LoopPrograms(kind) ==
    {[text |-> pre \o ListLiteralOf(n) \o " (x) " \o Quoted(body) \o " " \o kind \o " x",
      n |-> n] :
        pre \in {"", "5 true "}, n \in 0..MaxLen, body \in Bodies}

MapPrograms == LoopPrograms("map")

FilterPrograms == LoopPrograms("filter")

ForPrograms == LoopPrograms("for")

C9_Results ==
    Done =>
        /\ \A c \in MapPrograms :
               program = c.text =>
                   /\ Last(C9_Below).t = "List"
                   /\ Len(Last(C9_Below).l) = c.n
        /\ \A c \in FilterPrograms :
               program = c.text =>
                   /\ Last(C9_Below).t = "List"
                   /\ \E keep \in SUBSET (1..c.n) :
                          Last(C9_Below).l =
                              [i \in 1..Cardinality(keep) |->
                                  Number(6 + CHOOSE j \in keep :
                                             Cardinality({m \in keep : m < j}) = i - 1)]
        /\ \A c \in ForPrograms :
               program = c.text =>
                   \A i \in 1..Len(stack) : stack[i].t # "List"

C9_Examples ==
    /\ program = "[7 8] (x) (x 1 add) map x" /\ Done =>
           stack = <<List(<<Number(8), Number(9)>>), Number(8)>>
    /\ program = "[7 8] (x) (x 8 less) filter x" /\ Done =>
           stack = <<List(<<Number(7)>>), Number(8)>>
    /\ program = "[7 8] (x) (x 8 less) for x" /\ Done =>
           stack = <<Bool(TRUE), Bool(FALSE), Number(8)>>
    /\ program = "5 true [7 8] (x) () map x" /\ Done =>
           stack = <<List(<<Bool(TRUE), Number(5)>>), Number(8)>>
    /\ program = "[7 8] (x) (x x) map x" /\ Done =>
           stack = <<Number(7), Number(8), List(<<Number(7), Number(8)>>), Number(8)>>

C9_MapFilterFor == [](C9_Results /\ C9_Examples) /\ [][C9_Collects]_vars

\* a map whose body pushes nothing has taken its two entries from below
C9_Witness ==
    /\ program = "5 true [7 8] (x) () map x"
    /\ Done
    /\ stack = <<List(<<Bool(TRUE), Number(5)>>), Number(8)>>

-----------------------------------------------------------------------------
(* C10: if pops the condition, then the else-branch, then the if-branch,   *)
(* and evaluates one of the two: the if-branch when the condition is true, *)
(* otherwise the else-branch.  The other branch has no effect:             *)
(* `(1) (2) true if` ends with the stack <<Number 1>>.                     *)

C10_Selects ==
    AtCommand("if") /\ Len(stack) >= 3 =>
        /\ stack' = SubSeq(stack, 1, Len(stack) - 3)
        /\ frames' = Advanced
                     \o <<Call(IF get_bool(stack[Len(stack)])
                               THEN get_string(stack[Len(stack) - 2])
                               ELSE get_string(stack[Len(stack) - 1]))>>
        /\ UNCHANGED <<memory, output, status>>

\* the condition tokens of the if programs that are true
TrueConditions == {"true", "1", "(a)", "[0]", "(false)"}

\* what a branch of the if programs leaves, run on the stack <<Number 4>>
BranchStack(code) ==
    CASE code = "1" -> <<Number(4), Number(1)>>
      [] code = "2" -> <<Number(4), Number(2)>>
      [] code = "1 2" -> <<Number(4), Number(1), Number(2)>>
      [] code = "pop" -> <<>>
      [] OTHER -> <<Number(4)>>

\* the programs `4 (a) (b) c if`, each with the branch its condition selects
IfCases ==
    {[text |-> "4 " \o Quoted(a) \o " " \o Quoted(b) \o " " \o c \o " if",
      taken |-> IF c \in TrueConditions THEN a ELSE b] :
        a \in Branches, b \in Branches, c \in Conditions}

C10_OneBranch ==
    /\ program = "(1) (2) true if" /\ Done => stack = <<Number(1)>>
    /\ program = "(1) (2) true if" =>
           \A i \in 1..Len(stack) : stack[i] # Number(2)
    /\ program = "(1) (2) false if" /\ Done => stack = <<Number(2)>>
    /\ Done =>
           \A c \in IfCases :
               program = c.text =>
                   /\ stack = BranchStack(c.taken)
                   /\ output = IF c.taken = "(a) print" THEN "a\n" ELSE ""
                   /\ DOMAIN memory = IF c.taken = "9 (y) var" THEN {"y"} ELSE {}

C10_IfSelectsOneBranch == [](C10_OneBranch) /\ [][C10_Selects]_vars

\* `(1) (2) true if` has run
C10_Witness == program = "(1) (2) true if" /\ Done /\ stack = <<Number(1)>>

-----------------------------------------------------------------------------
(* C11: range pops step, then max, then min.  For integers with step >= 1  *)
(* and min <= max, negative min and max included, it pushes the List of    *)
(* the Numbers min, min + step, min + 2 * step, ... that are less than     *)
(* max, and no other: `0 10 2 range` gives [0, 2, 4, 6, 8].                *)

\* range is about to run on three Numbers
RangeOperands ==
    /\ AtCommand("range")
    /\ Len(stack) >= 3
    /\ \A i \in 0..2 : stack[Len(stack) - i].t = "Number"

\* the Numbers min + k * step below max
C11_Values(min, max, step) ==
    [k \in 1..((max - min + step - 1) \div step) |-> Number(min + (k - 1) * step)]

C11_RangeValues ==
    [][RangeOperands =>
           LET step == stack[Len(stack)].n
               max == stack[Len(stack) - 1].n
               min == stack[Len(stack) - 2].n
           IN  step >= 1 /\ min <= max =>
                   stack' = Append(SubSeq(stack, 1, Len(stack) - 3),
                                   List(C11_Values(min, max, step)))]_vars

-----------------------------------------------------------------------------
(* C12: the tokenizer ends a token at a space exactly when, at that point  *)
(* of the scan from the left, the hash toggle is off, the bracket depth is *)
(* zero and the parenthesis depth is zero; any other space stays in the    *)
(* token.  The parenthesis depth changes on every `(` and `)`, the bracket *)
(* depth on `[` and `]` only while the parenthesis depth is zero, and the  *)
(* hash toggle flips on every `#`.  Tab, newline, carriage return and the  *)
(* full-width space count as a space.  So the tokens of a text are the     *)
(* maximal runs of characters that hold no such ending space.              *)

\* the number of positions below i that hold the character c
C12_Count(s, i, c) == Cardinality({j \in 1..(i - 1) : Char(s, j) = c})

\* the state of the scan when it reaches position i
C12_ParenDepth(s, i) == C12_Count(s, i, "(") - C12_Count(s, i, ")")

C12_HashOn(s, i) == C12_Count(s, i, "#") % 2 = 1

C12_BracketDepth(s, i) ==
    Cardinality({j \in 1..(i - 1) : Char(s, j) = "[" /\ C12_ParenDepth(s, j) = 0})
    - Cardinality({j \in 1..(i - 1) : Char(s, j) = "]" /\ C12_ParenDepth(s, j) = 0})

\* position i holds a space that ends a token
C12_Ends(s, i) ==
    /\ Char(s, i) \in WhiteSpace
    /\ ~C12_HashOn(s, i)
    /\ C12_BracketDepth(s, i) = 0
    /\ C12_ParenDepth(s, i) = 0

\* the text of the positions a..b, its white space written as spaces
C12_Run(s, a, b) ==
    Join([i \in 1..(b - a + 1) |->
             IF Char(s, a + i - 1) \in WhiteSpace THEN " " ELSE Char(s, a + i - 1)],
         "")

\* the maximal runs of positions that hold no ending space, from the left
C12_Tokens(s) ==
    LET ends == {i \in 1..Len(s) : C12_Ends(s, i)}
        starts == {a \in 1..Len(s) : a \notin ends /\ (a = 1 \/ a - 1 \in ends)}
        start(k) == CHOOSE a \in starts : Cardinality({x \in starts : x < a}) = k - 1
        stop(a) == CHOOSE b \in a..Len(s) :
                       /\ \A i \in a..b : i \notin ends
                       /\ b = Len(s) \/ b + 1 \in ends
    IN  [k \in 1..Cardinality(starts) |-> C12_Run(s, start(k), stop(start(k)))]

\* run_stack has tokenized its text and processed no token yet
Tokenized == log = <<>> /\ Len(frames) = 1

C12_TokenEndsAtFreeSpace == Tokenized => Top.toks = C12_Tokens(program)

\* a bracket inside parentheses has not changed the bracket depth, and the
\* space after the parentheses has ended the token
C12_Witness ==
    /\ Tokenized
    /\ program = "([) a"
    /\ Top.toks = <<"([)", "a">>

-----------------------------------------------------------------------------
(* C13: a bracketed list token records the length of the stack, runs its   *)
(* interior as a sub-program on the same stack and store, then takes every *)
(* value above the recorded length off the stack and pushes one List of    *)
(* them, the bottom-most first.  When the interior pops nothing but what   *)
(* it has pushed, the stack afterwards is the earlier stack and that List: *)
(* `[1 2 3] reverse` ends with the List [3, 2, 1] of Numbers.              *)

C13_Runs ==
    At("list") =>
        /\ frames'[Len(frames) + 1] = [k |-> "list", old_len |-> Len(stack)]
        /\ Len(frames') = Len(frames) + 2
        /\ Last(frames').k = "eval"
        /\ UNCHANGED <<stack, memory, output, status>>

C13_Collects ==
    AtFrame("list") /\ Len(stack) >= Top.old_len =>
        /\ Len(stack') = Top.old_len + 1
        /\ \A i \in 1..Top.old_len : stack'[i] = stack[i]
        /\ Last(stack').t = "List"
        /\ Len(Last(stack').l) = Len(stack) - Top.old_len
        /\ \A i \in 1..(Len(stack) - Top.old_len) :
               Last(stack').l[i] = stack[Top.old_len + i]
        /\ frames' = Front(frames)
        /\ UNCHANGED <<memory, output, status>>

\* what each interior of Interiors leaves when it is run alone
C13_Values(interior) ==
    CASE interior = "" -> <<>>
      [] interior = "1 2 3" -> <<Number(1), Number(2), Number(3)>>
      [] interior = "1 2 add" -> <<Number(3)>>
      [] interior = "(a) (b c)" -> <<String("a"), String("b c")>>
      [] interior = "7 copy" -> <<Number(7), Number(7)>>
      [] interior = "1 2 swap" -> <<Number(2), Number(1)>>
      [] interior = "1 2 pop" -> <<Number(1)>>
      [] interior = "[1] 2" -> <<List(<<Number(1)>>), Number(2)>>
      [] interior = "[1 [2 3]] [ ]" ->
            <<List(<<Number(1), List(<<Number(2), Number(3)>>)>>), List(<<>>)>>
      [] interior = "true 0" -> <<Bool(TRUE), Number(0)>>
      [] interior = "1 (x) var 4" -> <<Number(4)>>
      [] interior = "(a  b)" -> <<String("a b")>>
      [] interior = "(1 2 add) eval" -> <<Number(3)>>
      [] interior = "[7 8] (x) (x 1 add) map" -> <<List(<<Number(8), Number(9)>>)>>

\* the programs `pre [interior]`, each with the stack pre leaves and the
\* values of its interior
C13_Cases ==
    {[text |-> pre.text \o "[" \o interior \o "]", before |-> pre.stack,
      values |-> C13_Values(interior)] :
        pre \in {[text |-> "", stack |-> <<>>],
                 [text |-> "1 2 ", stack |-> <<Number(1), Number(2)>>]},
        interior \in Interiors}

C13_Literal ==
    /\ program = "[1 2 3] reverse" /\ Done =>
           stack = <<List(<<Number(3), Number(2), Number(1)>>)>>
    /\ Done =>
           \A c \in C13_Cases :
               program = c.text => stack = Append(c.before, List(c.values))

C13_ListCollectsPushed == [](C13_Literal) /\ [][C13_Runs /\ C13_Collects]_vars

\* `[1 2 3] reverse` has run
C13_Witness ==
    /\ program = "[1 2 3] reverse"
    /\ Done
    /\ stack = <<List(<<Number(3), Number(2), Number(1)>>)>>

-----------------------------------------------------------------------------
(* C14, as stated: the tokens of the interior of a list literal are the    *)
(* pieces of a plain split at white space, so `[(a b) 1]` evaluates `(a`   *)
(* and `b)` apart and its List does not hold the String `a b`.             *)

C14_Pieces ==
    At("list") => Last(frames').toks = split_whitespace(inner(token))

C14_NoNestedString ==
    program = "[(a b) 1]" /\ Done =>
        \A i \in 1..Len(stack[1].l) : stack[1].l[i] # String("a b")

C14_InteriorSplitOnly == [](C14_NoNestedString) /\ [][C14_Pieces]_vars

(* C14, amended: the interior is split at white space, the pieces are      *)
(* joined again with single spaces, and the joined text is tokenized by    *)
(* the nesting-aware scan of every program.  `[(a b) 1]` evaluates the     *)
(* token `(a b)` whole and ends with the List [String `a b`, Number 1];    *)
(* what a nested literal loses is the length of a run of white space:      *)
(* `[(a  b)]` holds the String `a b`.                                      *)

C14_Rescanned ==
    At("list") =>
        Last(frames').toks =
            C12_Tokens(Join(split_whitespace(inner(token)), " "))

C14_Nested ==
    /\ program = "[(a b) 1]" /\ Done =>
           stack = <<List(<<String("a b"), Number(1)>>)>>
    /\ program = "[(a  b)]" /\ Done => stack = <<List(<<String("a b")>>)>>
    /\ program = "[(a\tb)]" /\ Done => stack = <<List(<<String("a b")>>)>>
    /\ program = "[[(a b)] (c d)]" /\ Done =>
           stack = <<List(<<List(<<String("a b")>>), String("c d")>>)>>
    /\ program = "[ 1   2 ]" /\ Done => stack = <<List(<<Number(1), Number(2)>>)>>

C14_InteriorRescanned == [](C14_Nested) /\ [][C14_Rescanned]_vars

\* `[(a b) 1]` has run: its List holds the String `a b`
C14_Witness ==
    /\ program = "[(a b) 1]"
    /\ Done
    /\ stack = <<List(<<String("a b"), Number(1)>>)>>

-----------------------------------------------------------------------------
(* C20: a bracketed list token is a literal whatever its interior: once it *)
(* is evaluated the stack is one longer than before, and the values that   *)
(* were on the stack are all there, unchanged and in their places, under   *)
(* the new List; also when the interior pops, as in `1 2 [pop pop]`.       *)

\* the programs `1 2 [interior]`, for every interior of the model
C20_Cases ==
    {"1 2 [" \o interior \o "]" : interior \in Interiors \cup PoppingInteriors}

C20_ListIsLiteral ==
    Done /\ program \in C20_Cases =>
        /\ Len(stack) = 3
        /\ stack[1] = Number(1)
        /\ stack[2] = Number(2)
        /\ stack[3].t = "List"

-----------------------------------------------------------------------------
(* C15: Output is append-only and only print changes it.  Every step       *)
(* leaves Output as it is, but a print step, which appends the String      *)
(* coercion of the value it pops and one newline.  The steps that log an   *)
(* underflow, an index out of range, a decode or encode failure, a trace   *)
(* line or a comment leave Output as it is.                                *)

C15_Step ==
    IF AtCommand("print")
    THEN output' = output \o get_string(Popped) \o "\n"
    ELSE output' = output

\* the lines of the log that report an error, and the comment lines
C15_Logged(lg) ==
    {i \in 1..Len(lg) :
        \/ lg[i] \in {ErrStack, ErrIndex, ErrDecode, ErrEncode}
        \/ Len(lg[i]) >= 8 /\ SubSeq(lg[i], 1, 8) = "comment:"}

C15_LogOnly ==
    C15_Logged(log') # C15_Logged(log) /\ ~AtCommand("print") => output' = output

C15_OutputOnlyByPrint == [][C15_Step /\ C15_LogOnly]_vars

\* two values have been printed, one after an underflow and one after an
\* index error and a comment
C15_Witness ==
    /\ Done
    /\ output = "a\n5\n"
    /\ {ErrStack, ErrIndex} \subseteq {log[i] : i \in 1..Len(log)}
    /\ Cardinality(C15_Logged(log)) = 3

-----------------------------------------------------------------------------
(* C16: decode of a Number that is not a Unicode scalar value (negative,   *)
(* in the surrogate range 0xD800 .. 0xDFFF, or above 0x10FFFF) logs an     *)
(* error and pushes the Number back; decode of a scalar value pushes a     *)
(* String of one character and logs no error.  encode of the empty String  *)
(* logs an error and pushes the empty String back.  On a non-empty stack   *)
(* both commands leave the stack as long as it was.                        *)

\* n is a Unicode scalar value
C16_Scalar(n) == n >= 0 /\ n <= 1114111 /\ ~(n >= 55296 /\ n <= 57343)

C16_Decode ==
    AtCommand("decode") /\ stack # <<>> /\ Last(stack).t = "Number" =>
        IF C16_Scalar(Last(stack).n)
        THEN /\ Front(stack') = Front(stack)
             /\ Last(stack').t = "String"
             /\ Len(Last(stack').s) = 1
             /\ log' = Traced
        ELSE /\ stack' = stack
             /\ log' = Append(Traced, ErrDecode)

C16_Encode ==
    AtCommand("encode") /\ stack # <<>> /\ Last(stack) = String("") =>
        /\ stack' = stack
        /\ log' = Append(Traced, ErrEncode)

C16_Length ==
    (AtCommand("decode") \/ AtCommand("encode")) /\ stack # <<>> =>
        Len(stack') = Len(stack)

C16_DecodeEncodeChecked == [][C16_Decode /\ C16_Encode /\ C16_Length]_vars

-----------------------------------------------------------------------------
(* C17: the store is one flat map in which the last write wins.  var pops  *)
(* the name, then the value, and stores the value under the name in place  *)
(* of any earlier one; the store holds one entry for a name, and mem lists *)
(* each stored name once.  A later token equal to a stored name pushes the *)
(* value written last (a token that is a literal is pushed as the literal, *)
(* whatever the store holds: C6).  After free of the name the store does   *)
(* not hold it, mem does not list it, and the token, when it is no         *)
(* literal, comment or command name, pushes the String of its own text.    *)
(* free of a name the store does not hold leaves the store as it is.  No   *)
(* step but var, free and the write of a loop variable changes the store:  *)
(* a nested evaluation that returns restores nothing.                      *)

C17_Var ==
    AtCommand("var") /\ Len(stack) >= 2 =>
        LET name == get_string(stack[Len(stack)])
            value == stack[Len(stack) - 1]
        IN  /\ DOMAIN memory' = DOMAIN memory \cup {name}
            /\ memory'[name] = value
            /\ \A n \in DOMAIN memory \ {name} : memory'[n] = memory[n]
            /\ stack' = SubSeq(stack, 1, Len(stack) - 2)

C17_Free ==
    AtCommand("free") /\ stack # <<>> =>
        LET name == get_string(Last(stack))
        IN  /\ DOMAIN memory' = DOMAIN memory \ {name}
            /\ \A n \in DOMAIN memory \ {name} : memory'[n] = memory[n]
            /\ name \notin DOMAIN memory => memory' = memory
            /\ stack' = Front(stack)

C17_Mem ==
    AtCommand("mem") =>
        /\ Front(stack') = stack
        /\ Last(stack').t = "List"
        /\ Len(Last(stack').l) = Cardinality(DOMAIN memory)
        /\ {Last(stack').l[i] : i \in 1..Len(Last(stack').l)}
               = {String(n) : n \in DOMAIN memory}
        /\ memory' = memory

\* the token is a number, true, false, a (string) or a [list]
C17_Literal(literal) ==
    \/ ParsesAsNumber(literal)
    \/ literal \in {"true", "false"}
    \/ Char(literal, 1) = "(" /\ Char(literal, Len(literal)) = ")"
    \/ Char(literal, 1) = "[" /\ Char(literal, Len(literal)) = "]"

C17_Read ==
    AtToken /\ ~C17_Literal(token) =>
        IF token \in DOMAIN memory
        THEN stack' = Append(stack, memory[token]) /\ memory' = memory
        ELSE ~Contains(token, "#") /\ token \notin Commands =>
                 stack' = Append(stack, String(token)) /\ memory' = memory

C17_Flat ==
    memory' # memory =>
        \/ AtCommand("var")
        \/ AtCommand("free")
        \/ AtIteration /\ Top.phase = "bind" /\ Top.list # <<>>

\* the stack and the names of the store at the end of each store program
\* (mem lists the names in the order of the map: one of them is given)
C17_Ends ==
    [text \in StorePrograms |->
        CASE text = "1 (x) var 2 (x) var x" -> [stack |-> <<Number(2)>>, names |-> {"x"}]
          [] text = "1 (x) var 2 (x) var mem" ->
                [stack |-> <<List(<<String("x")>>)>>, names |-> {"x"}]
          [] text = "1 (x) var (x) free x mem" ->
                [stack |-> <<String("x"), List(<<>>)>>, names |-> {}]
          [] text = "1 (x) var (y) free x" -> [stack |-> <<Number(1)>>, names |-> {"x"}]
          [] text = "(y) free mem" -> [stack |-> <<List(<<>>)>>, names |-> {}]
          [] text = "1 (x) var 2 (x) var x (x) free x" ->
                [stack |-> <<Number(2), String("x")>>, names |-> {}]
          [] text = "(1 (x) var) eval x" -> [stack |-> <<Number(1)>>, names |-> {"x"}]
          [] text = "1 (x) var (2 (x) var) eval x" ->
                [stack |-> <<Number(2)>>, names |-> {"x"}]
          [] text = "1 (x) var [2 (x) var] x" ->
                [stack |-> <<List(<<>>), Number(2)>>, names |-> {"x"}]
          [] text = "1 (add) var (add) free 2 3 add" ->
                [stack |-> <<Number(5)>>, names |-> {}]
          [] text = "1 (#c#) var (#c#) free #c#" -> [stack |-> <<>>, names |-> {}]
          [] text = "1 (x) var x (x) free x 2 (x) var x" ->
                [stack |-> <<Number(1), String("x"), Number(2)>>, names |-> {"x"}]
          [] text = "1 (x) var (x) free (x) free x" ->
                [stack |-> <<String("x")>>, names |-> {}]
          [] text = "1 (x) var 2 (y) var (x) free y x mem" ->
                [stack |-> <<Number(2), String("x"), List(<<String("y")>>)>>,
                 names |-> {"y"}]
          [] text = "1 (x) var 2 (y) var mem" ->
                [stack |-> <<List(<<String("x"), String("y")>>)>>,
                 names |-> {"x", "y"}]]

C17_LastWriteWins ==
    Done /\ program \in StorePrograms =>
        /\ DOMAIN memory = C17_Ends[program].names
        /\ \/ stack = C17_Ends[program].stack
           \/ /\ program = "1 (x) var 2 (y) var mem"
              /\ stack = <<List(<<String("y"), String("x")>>)>>
        /\ program = "1 (x) var 2 (y) var mem" =>
               memory = [n \in {"x", "y"} |-> IF n = "x" THEN Number(1) ELSE Number(2)]

-----------------------------------------------------------------------------
(* C18: cast pops the name of the target kind, then the value, and pushes  *)
(* one value.  For the kinds number, string, bool and list it is the value *)
(* coerced by the fixed table, and is of the kind asked for: to Number, a  *)
(* Bool gives 1 or 0, a String its parsed number or 0, a List its count of *)
(* elements; to Bool, a Number is true when nonzero, a String and a List   *)
(* when nonempty (so the Strings `false` and `0` are true); to List, a     *)
(* Number or a Bool gives a list of one element and a String one element   *)
(* per character; to String, the text of the value.  For any other name    *)
(* the value is pushed back as it is.  No pair of value and kind fails.    *)

\* cast is about to run on a value under the name of a kind
CastOperands == AtCommand("cast") /\ Len(stack) >= 2

C18_ToNumber(v) ==
    CASE v.t = "Number" -> v.n
      [] v.t = "Bool" -> IF v.b THEN 1 ELSE 0
      [] v.t = "String" -> IF ParsesAsNumber(v.s) THEN ParseNumber(v.s) ELSE 0
      [] v.t = "List" -> Len(v.l)

C18_ToBool(v) ==
    CASE v.t = "Number" -> v.n # 0
      [] v.t = "Bool" -> v.b
      [] v.t = "String" -> v.s # ""
      [] v.t = "List" -> v.l # <<>>

C18_ToList(v) ==
    CASE v.t \in {"Number", "Bool"} -> <<v>>
      [] v.t = "String" -> [i \in 1..Len(v.s) |-> String(SubSeq(v.s, i, i))]
      [] v.t = "List" -> v.l

C18_ToString(v) ==
    CASE v.t = "Number" -> NumberToString(v.n)
      [] v.t = "Bool" -> IF v.b THEN "true" ELSE "false"
      [] v.t = "String" -> v.s
      [] v.t = "List" -> display(v)

C18_Table ==
    CastOperands =>
        LET kind == get_string(stack[Len(stack)])
            v == stack[Len(stack) - 1]
        IN  /\ stack' =
                   Append(SubSeq(stack, 1, Len(stack) - 2),
                          CASE kind = "number" -> Number(C18_ToNumber(v))
                            [] kind = "string" -> String(C18_ToString(v))
                            [] kind = "bool" -> Bool(C18_ToBool(v))
                            [] kind = "list" -> List(C18_ToList(v))
                            [] OTHER -> v)
            /\ status' = "running"
            /\ frames' = Advanced
            /\ log' = Traced
            /\ UNCHANGED <<memory, output>>

\* the value each cast program ends with
C18_Examples ==
    Done =>
        /\ program = "(false) (bool) cast" => stack = <<Bool(TRUE)>>
        /\ program = "(0) (bool) cast" => stack = <<Bool(TRUE)>>
        /\ program = "() (bool) cast" => stack = <<Bool(FALSE)>>
        /\ program = "0 (bool) cast" => stack = <<Bool(FALSE)>>
        /\ program = "[0] (bool) cast" => stack = <<Bool(TRUE)>>
        /\ program = "[] (bool) cast" => stack = <<Bool(FALSE)>>
        /\ program = "true (number) cast" => stack = <<Number(1)>>
        /\ program = "false (number) cast" => stack = <<Number(0)>>
        /\ program = "(x) (number) cast" => stack = <<Number(0)>>
        /\ program = "(12) (number) cast" => stack = <<Number(12)>>
        /\ program = "(-3) (number) cast" => stack = <<Number(-3)>>
        /\ program = "[7 8] (number) cast" => stack = <<Number(2)>>
        /\ program = "12 (list) cast" => stack = <<List(<<Number(12)>>)>>
        /\ program = "true (list) cast" => stack = <<List(<<Bool(TRUE)>>)>>
        /\ program = "(ab) (list) cast" =>
               stack = <<List(<<String("a"), String("b")>>)>>
        /\ program = "() (list) cast" => stack = <<List(<<>>)>>
        /\ program = "[7 8] (string) cast" => stack = <<String("[7 8]")>>
        /\ program = "-1 (string) cast" => stack = <<String("-1")>>
        /\ program = "(u) [7 8] (foo) cast" =>
               stack = <<String("u"), List(<<Number(7), Number(8)>>)>>
        /\ program = "(u) (12) (Number) cast" => stack = <<String("u"), String("12")>>
        /\ program = "(u) 0 [list] cast" => stack = <<String("u"), Number(0)>>

C18_CastTotal == [](C18_Examples) /\ [][C18_Table]_vars

\* the String `false` has been cast to Bool
C18_Witness ==
    /\ program = "(false) (bool) cast"
    /\ Done
    /\ stack = <<Bool(TRUE)>>

-----------------------------------------------------------------------------
(* C19: while evaluates the condition before every evaluation of the body, *)
(* the first included.  The body is evaluated only right after a condition *)
(* whose result is true; it is not evaluated at all when the first result  *)
(* is false, and the loop ends at the first false result.  A condition     *)
(* that leaves the stack empty gives the underflow default, the empty      *)
(* String, which is false: the loop ends there, and `while` on the empty   *)
(* stack terminates.                                                       *)

\* while starts with the condition
C19_ConditionFirst ==
    AtCommand("while") =>
        /\ Len(frames') = Len(frames) + 2
        /\ frames'[Len(frames) + 1].k = "while"
        /\ frames'[Len(frames) + 1].phase = "cond"
        /\ Last(frames') = Call(frames'[Len(frames) + 1].cond)

\* the result of the condition decides: true evaluates the body, false (the
\* default of an empty stack included) ends the loop
C19_Test ==
    AtFrame("while") /\ Top.phase = "cond" =>
        /\ IF get_bool(Popped)
           THEN frames' = [frames EXCEPT ![Len(frames)].phase = "body"]
                          \o <<Call(Top.code)>>
           ELSE frames' = Front(frames)
        /\ stack = <<>> =>
               /\ frames' = Front(frames)
               /\ Underflows(log') = Underflows(log) + 1
               /\ stack' = <<>>

\* after the body the condition is evaluated again
C19_Again ==
    AtFrame("while") /\ Top.phase = "body" =>
        frames' = [frames EXCEPT ![Len(frames)].phase = "cond"] \o <<Call(Top.cond)>>

\* a step that starts an evaluation of the body is a test whose result is true
C19_BodyAfterTrue ==
    /\ Len(frames') = Len(frames) + 1
    /\ Len(frames) >= 1
    /\ frames'[Len(frames)].k = "while"
    /\ frames'[Len(frames)].phase = "body"
    => /\ AtFrame("while")
       /\ Top.phase = "cond"
       /\ stack # <<>>
       /\ get_bool(Last(stack))

\* Output at the end of the loops that print: one `b` for each evaluation of
\* the body, which is one for each true result of the condition before the
\* first false one
C19_Turns ==
    Done =>
        /\ program = "(b print) (0) while" => output = "" /\ stack = <<>>
        /\ program = "(9) (0) while" => output = "" /\ stack = <<>>
        /\ program = "0 1 1 (b print) () while" =>
               output = "b\nb\n" /\ stack = <<>> /\ Underflows(log) = 0
        /\ program = "1 0 1 (b print) () while" =>
               output = "b\n" /\ stack = <<Number(1)>> /\ Underflows(log) = 0
        /\ program = "true (b print) () while" =>
               output = "b\n" /\ stack = <<>> /\ Underflows(log) = 1
        /\ program = "1 1 (b print) () while" =>
               output = "b\nb\n" /\ stack = <<>> /\ Underflows(log) = 1
        /\ program = "(x) () while" =>
               output = "" /\ stack = <<>> /\ Underflows(log) = 1
        /\ program = "while" => output = "" /\ stack = <<>> /\ Underflows(log) = 3
        /\ program = "while 4" => stack = <<Number(4)>> /\ Underflows(log) = 3

\* the loops whose condition leaves the stack empty at some turn, and those
\* whose condition gives false at some turn
C19_Emptying ==
    {"while", "while 4", "(x) () while", "true (b print) () while",
     "1 1 (b print) () while"}

C19_False ==
    {"0 1 1 (b print) () while", "1 0 1 (b print) () while",
     "(b print) (0) while", "(9) (0) while"}

\* these loops end, and the program after them runs to its end
C19_Ends == (program \in C19_Emptying \cup C19_False) ~> Done

C19_WhileTestsFirst ==
    /\ [](C19_Turns)
    /\ [][C19_ConditionFirst /\ C19_Test /\ C19_Again /\ C19_BodyAfterTrue]_vars
    /\ C19_Ends

\* `while` has run on the empty stack: two underflows for its operands, one
\* for the result of the empty condition, and no evaluation of the body
C19_Witness ==
    /\ program = "while"
    /\ Done
    /\ stack = <<>>
    /\ Underflows(log) = 3

-----------------------------------------------------------------------------
(* C22: on a stack of at least two values swap exchanges the top two and   *)
(* leaves the values below in place, so `swap swap` restores the stack; on *)
(* a non-empty stack copy adds one value equal to the top, so `copy pop`   *)
(* restores the stack.  Neither command changes the variable store or      *)
(* Output.                                                                 *)

\* a swap step on two values or more
C22_Swap ==
    AtCommand("swap") /\ Len(stack) >= 2 =>
        /\ Len(stack') = Len(stack)
        /\ stack'[Len(stack)] = stack[Len(stack) - 1]
        /\ stack'[Len(stack) - 1] = stack[Len(stack)]
        /\ \A i \in 1..(Len(stack) - 2) : stack'[i] = stack[i]

\* a copy step on one value or more
C22_Copy ==
    AtCommand("copy") /\ stack # <<>> =>
        /\ Len(stack') = Len(stack) + 1
        /\ Last(stack') = Last(stack)
        /\ \A i \in 1..Len(stack) : stack'[i] = stack[i]

\* neither step writes the store or Output
C22_StackOnly ==
    AtCommand("swap") \/ AtCommand("copy") => UNCHANGED <<memory, output>>

\* the value a literal of RoundTripTokens pushes
C22_Value(literal) ==
    CASE literal = "1" -> Number(1)
      [] literal = "(x)" -> String("x")
      [] literal = "true" -> Bool(TRUE)
      [] literal = "[7 8]" -> List(<<Number(7), Number(8)>>)

\* the round trips on a stack the claim covers, each with the stack below
C22_Cases ==
    {[text |-> Join(c[1] \o c[2], " "),
      stack |-> [i \in 1..Len(c[1]) |-> C22_Value(c[1][i])]] :
        c \in {d \in TokenSeqs(RoundTripTokens, MaxBelow) \X RoundTrips :
                  \/ Len(d[1]) >= 2
                  \/ Len(d[1]) = 1 /\ d[2][1] = "copy"}}

C22_RoundTrip ==
    Done =>
        /\ \A c \in C22_Cases :
               program = c.text =>
                   stack = c.stack /\ memory = NoVariables /\ output = ""
        /\ program \in {"7 (v) var (o) print 1 (x) swap swap",
                         "7 (v) var (o) print 1 copy pop"} =>
               /\ memory = [n \in {"v"} |-> Number(7)]
               /\ output = "o\n"
               /\ Len(stack) \in {1, 2}
               /\ stack[1] = Number(1)
               /\ Len(stack) = 2 => stack[2] = String("x")
        /\ program = "1 2 3 swap" => stack = <<Number(1), Number(3), Number(2)>>
        /\ program = "1 2 copy" => stack = <<Number(1), Number(2), Number(2)>>

C22_SwapCopyRoundTrip ==
    [](C22_RoundTrip) /\ [][C22_Swap /\ C22_Copy /\ C22_StackOnly]_vars

\* the first swap of `true 1 (x) swap swap` has exchanged the top two values
C22_Witness ==
    /\ program = "true 1 (x) swap swap"
    /\ frames # <<>>
    /\ Top.toks = <<"swap">>
    /\ stack = <<Bool(TRUE), String("x"), Number(1)>>

-----------------------------------------------------------------------------
(* C23: the tokenizer emits no empty token, whatever the text: the empty   *)
(* text, a text of white space only, the empty text of `() eval` and of    *)
(* the list literal `[]` included.  So the token loop reads the first and  *)
(* last character of a token that has one, and the string and list arms    *)
(* cut the first and last character off a token of two characters or more. *)

\* every token of every call of evaluate_program, pending or running, has a
\* character
C23_NoEmptyToken ==
    \A i \in 1..Len(frames) :
        frames[i].k = "eval" =>
            \A j \in 1..Len(frames[i].toks) : Len(frames[i].toks[j]) >= 1

\* the token the loop is at is read and cut within its range
C23_InRange ==
    AtToken =>
        /\ ~chars_out_of_range(token)
        /\ ~slice_out_of_range(token)
        /\ classify(token, memory) \in {"string", "list"} =>
               /\ Len(token) >= 2
               /\ Len(inner(token)) = Len(token) - 2

\* the texts without a token: run_stack on them, `eval` of them and the list
\* literal of them end with nothing pushed but the empty List
C23_Empty ==
    /\ program \in {"", " ", "  ", "   ", "    ", "\t\n"} =>
           /\ frames # <<>> => Top.toks = <<>>
           /\ stack = <<>>
    /\ Done =>
           /\ program \in {"() eval", "( ) eval", "(\n) eval", "() eval "} =>
                  stack = <<>>
           /\ program \in {"[]", "[ ]", "[  ]", "[\t]", " [ ] "} =>
                  stack = <<List(<<>>)>>
           /\ program = "()" => stack = <<String("")>>

C23_TokensNonEmpty == C23_NoEmptyToken /\ C23_InRange /\ C23_Empty

\* `() eval` has called evaluate_program on the empty text: the call has no
\* token
C23_Witness ==
    /\ program = "() eval"
    /\ Len(frames) = 2
    /\ Top = Call("")
    /\ Top.toks = <<>>

-----------------------------------------------------------------------------
(* C21: `(P) eval` is P run in place.  For a text P with balanced          *)
(* parentheses and brackets and no `#`, on a store that does not bind the  *)
(* name `eval`, `(P) eval` ends with the stack, the variable store and the *)
(* Output that the tokens of P leave when they are written inline; what P  *)
(* changes (variables created, values popped from below) stays after eval  *)
(* returns.  As first stated the claim covers every store, one that binds  *)
(* `eval` included.                                                        *)

\* the stack, store and Output after the text P, from those before it
C21_After(text, s) ==
    CASE text = "" -> s
      [] text = "2" -> [s EXCEPT !.stack = Append(@, Number(2))]
      [] text = "1 2 add" -> [s EXCEPT !.stack = Append(@, Number(3))]
      [] text = "pop pop" ->
            [s EXCEPT !.stack = IF Len(@) >= 2 THEN SubSeq(@, 1, Len(@) - 2)
                                ELSE <<>>]
      [] text = "9 (w) var" ->
            [s EXCEPT !.memory = [n \in DOMAIN @ \cup {"w"} |->
                                     IF n = "w" THEN Number(9) ELSE @[n]]]
      [] text = "(a b) print" -> [s EXCEPT !.output = @ \o "a b\n"]
      [] text = "(7) eval" ->
            IF "eval" \in DOMAIN s.memory
            THEN [s EXCEPT !.stack = @ \o <<String("7"), s.memory["eval"]>>]
            ELSE [s EXCEPT !.stack = Append(@, Number(7))]
      [] text = "(v) free" ->
            [s EXCEPT !.memory = [n \in DOMAIN @ \ {"v"} |-> @[n]]]
      [] text = "(1) (2) true if" -> [s EXCEPT !.stack = Append(@, Number(1))]
      [] text = "(b) (0) while" -> s
      [] text = "[8] (x) (x) map" ->
            [s EXCEPT !.stack = Append(@, List(<<Number(8)>>)),
                      !.memory = [n \in DOMAIN @ \cup {"x"} |->
                                     IF n = "x" THEN Number(8) ELSE @[n]]]
      [] text = "[1 [2]] len" -> [s EXCEPT !.stack = Append(@, Number(2))]

\* each program of a start and a text, with what the text run inline leaves
C21_Ends(starts) ==
    {[inline |-> Inline(c[1], c[2]), evaluated |-> Evaluated(c[1], c[2]),
      end |-> C21_After(c[2], [stack |-> c[1].stack, memory |-> c[1].memory,
                               output |-> c[1].output])] :
        c \in {d \in starts \X EvalTexts : Len(d[1].text) + Len(d[2]) <= 32}}

C21_Unbound == C21_Ends({c \in Starts : "eval" \notin DOMAIN c.memory})

C21_Every == C21_Ends(Starts)

C21_End == [stack |-> stack, memory |-> memory, output |-> output]

\* both programs of a case end as the inline text does
C21_Same(cases) ==
    Done =>
        \A c \in cases :
            program = c.inline \/ program = c.evaluated => C21_End = c.end

\* an eval step on a String: the text is tokenized as a program text is, and
\* its tokens run on the stack below the String, the store and the Output
C21_Enters ==
    AtCommand("eval") /\ stack # <<>> /\ Last(stack).t = "String" =>
        /\ stack' = Front(stack)
        /\ frames' = Advanced \o <<Call(Last(stack).s)>>
        /\ UNCHANGED <<memory, output>>

\* the return of a call restores nothing
C21_Returns ==
    AtFrame("eval") /\ Top.toks = <<>> =>
        /\ frames' = Front(frames)
        /\ UNCHANGED <<stack, memory, output>>

\* the tokens of `(P) eval` are the String of P and eval, for every balanced P
C21_Quoted ==
    log = <<>> /\ Len(frames) = 1 =>
        \A text \in BalancedTexts :
            program = Quoted(text) \o " eval" => Top.toks = <<Quoted(text), "eval">>

\* the claim as first stated: on every store
C21_EvalIsInline ==
    [](C21_Same(C21_Every) /\ C21_Quoted) /\ [][C21_Enters /\ C21_Returns]_vars

\* the claim on the stores that do not bind `eval`
C21_EvalIsInlineUnbound ==
    [](C21_Same(C21_Unbound) /\ C21_Quoted) /\ [][C21_Enters /\ C21_Returns]_vars

\* `pop pop` has run through eval above 3 and 4: both are gone after the
\* return
C21_Witness ==
    /\ program = "3 4 (pop pop) eval"
    /\ Done
    /\ stack = <<>>

=============================================================================
